---- MODULE Spec2Model ----
(***************************************************************************)
(* Metrics-derivation pipeline of the ToxRepresentatives dashboard         *)
(* (src/analytics.py, src/app.py, src/data_loader.py).                     *)
(*                                                                         *)
(* A table (pandas DataFrame) is a sequence of records.  Instants are      *)
(* integers counted in half days, so that timedelta.days (a floor) is a    *)
(* real rounding: (a - b).days = (a - b) \div HalfDaysPerDay.              *)
(* representatives is the representatives table; columns names the        *)
(* optional columns the laboratories and the gatherings tables carry.      *)
(* A float is a record [kind, num, den]: kind "num" is the rational        *)
(* num/den (den > 0), kind "inf" is +infinity.  NaN never survives the     *)
(* fillna(0) of the code, so it is not a value of any result.              *)
(*                                                                         *)
(* Every function of the pipeline is pure, so each family of functions     *)
(* has its own specification: Init draws the input tables from bounded     *)
(* sets, and one action per function applies it and stores what it         *)
(* returns in result.                                                      *)
(***************************************************************************)
EXTENDS Integers, Sequences, FiniteSets, TLC

VARIABLES representatives, labs, gatherings, columns, monthly, gatheringBag, result

vars == <<representatives, labs, gatherings, columns, monthly, gatheringBag, result>>

----------------------------------------------------------------------------
(* Bounds of the model *)

MaxLabs == 2
MaxGatherings == 2
MaxReps == 2

(* Program constants *)

NaT == -1
NeverCollected == 999
HalfDaysPerDay == 2

----------------------------------------------------------------------------
(* Generic helpers *)

Max2(a, b) == IF a >= b THEN a ELSE b

SetMax(S) == CHOOSE x \in S : \A y \in S : y <= x

SetMin(S) == CHOOSE x \in S : \A y \in S : x <= y

RECURSIVE SeqSum(_)
SeqSum(s) == IF s = <<>> THEN 0 ELSE Head(s) + SeqSum(Tail(s))

SeqsUpTo(S, n) == UNION {[1..k -> S] : k \in 0..n}

NoResult == [op |-> "none"]

(* the location columns (state_code, state_name, city) each table carries: none
   in the tables load_csvs returns, enrich_labs_with_location being disabled *)
NoLocation == [labs |-> {}, gatherings |-> {}]

(* df[name] = value on one row: the row with that column added or replaced *)
WithColumn(row, name, value) ==
    [c \in DOMAIN row \cup {name} |-> IF c = name THEN value ELSE row[c]]

----------------------------------------------------------------------------
(* Status classifier: src/analytics.py *)

(* compute_credenciamento: a copy of the table with is_credenciado added *)
MutCredExclusionAware(lab, current_date) ==
    lab.active = TRUE /\ (lab.exclusionDate = NaT \/ lab.exclusionDate > current_date)

is_credenciado(lab, current_date) == lab.active = TRUE

compute_credenciamento(df_labs, current_date) ==
    [i \in 1..Len(df_labs) |->
        WithColumn(df_labs[i], "is_credenciado", is_credenciado(df_labs[i], current_date))]

(* pd.to_datetime(errors="coerce") then dropna(subset=["createdAt"]) *)
ValidCreatedAt(g) == g.createdAt # NaT

dropna_createdAt(df) == SelectSeq(df, ValidCreatedAt)

(* groupby("_laboratory")["createdAt"].max(): laboratory -> latest instant *)
last_collection_of(df_clean) ==
    [l \in {df_clean[i]._laboratory : i \in 1..Len(df_clean)} |->
        SetMax({df_clean[i].createdAt :
                    i \in {j \in 1..Len(df_clean) : df_clean[j]._laboratory = l}})]

(* labs.merge(last_collection, ..., suffixes=("_lab", "_coleta")): the name
   last_collection's createdAt has in the merged table, suffixed only when the
   laboratories have a createdAt column of their own *)
coleta_column(df_labs) ==
    IF \A i \in 1..Len(df_labs) : "createdAt" \in DOMAIN df_labs[i]
    THEN "createdAt_coleta" ELSE "createdAt"

(* the left merge on _id = _laboratory: NaT where the laboratory has no row *)
createdAt_coleta(lab, last_collection) ==
    IF lab._id \in DOMAIN last_collection THEN last_collection[lab._id] ELSE NaT

MutDaysNoClamp(dt, current_date) ==
    IF dt = NaT THEN NeverCollected ELSE (current_date - dt) \div HalfDaysPerDay

_days_diff_safe(dt, current_date) ==
    IF dt = NaT THEN NeverCollected
    ELSE Max2((current_date - dt) \div HalfDaysPerDay, 0)

(* lambda x: str(x) if x != 999 else "-" *)
days_display(x) ==
    IF x # NeverCollected THEN [txt |-> "number", n |-> x] ELSE [txt |-> "-", n |-> 0]

(* lambda x: x.strftime(...) if pd.notna(x) else "Sem coletas" *)
ultima_coleta_str(x) ==
    IF x # NaT THEN [txt |-> "date", t |-> x] ELSE [txt |-> "Sem coletas", t |-> NaT]

StatusRow(lab, ativo, days, ultima) ==
    LET added == [ativo_coleta |-> ativo, days_since_last |-> days, ultima_coleta |-> ultima,
                  ultima_coleta_str |-> ultima_coleta_str(ultima),
                  days_since_last_display |-> days_display(days)]
    IN  [c \in DOMAIN lab \cup DOMAIN added |-> IF c \in DOMAIN added THEN added[c] ELSE lab[c]]

ativo_coleta(days, activity_window_days) == days <= activity_window_days

compute_coleta_status(df_labs_cred, df_gatherings_active, current_date, activity_window_days) ==
    IF df_gatherings_active = <<>>
    THEN [raised |-> "none",
          labs |-> [i \in 1..Len(df_labs_cred) |->
                      StatusRow(df_labs_cred[i], FALSE, NeverCollected, NaT)],
          last_collection |-> <<>>]
    ELSE IF coleta_column(df_labs_cred) # "createdAt_coleta"
    THEN [raised |-> "KeyError", labs |-> <<>>, last_collection |-> <<>>]
    ELSE LET last == last_collection_of(dropna_createdAt(df_gatherings_active))
             row(lab) ==
                LET dt == createdAt_coleta(lab, last)
                    days == _days_diff_safe(dt, current_date)
                IN  StatusRow(lab, ativo_coleta(days, activity_window_days), days, dt)
         IN  [raised |-> "none",
              labs |-> [i \in 1..Len(df_labs_cred) |-> row(df_labs_cred[i])],
              last_collection |-> last]

----------------------------------------------------------------------------
(* Inputs of the status classifier *)

ExclusionDates == {NaT, 1000, 3000}

Instants == {2000, 2001}

(* offsets of a gathering from the earliest reference instant, in half days:
   999 days before, 10.5 and 10 days before, half a day after *)
CreatedAtValues == {NaT, 2000 - 1998, 2000 - 21, 2000 - 20, 2000 + 1}

ActivityWindows == {0, 5, 15, 999}

(* references of gatherings: laboratories 1 and 2, and 9, which no table holds *)
LabRefs == {1, 2, 9}

LabRow(i, a, p, e) ==
    [_id |-> i, active |-> a, approved |-> p, exclusionDate |-> e, createdAt |-> 2000 - 800]

(* laboratory tables with identifiers 1..n and every flag combination *)
LabTables ==
    UNION {{[i \in 1..n |-> LabRow(i, f[i][1], f[i][2], f[i][3])] :
               f \in [1..n -> BOOLEAN \X BOOLEAN \X ExclusionDates]} : n \in 1..MaxLabs}

(* laboratory tables in which only the active flag varies *)
LabTablesActiveOnly ==
    UNION {{[i \in 1..n |-> LabRow(i, f[i], TRUE, NaT)] : f \in [1..n -> BOOLEAN]} :
               n \in 1..MaxLabs}

GatheringRows == [_laboratory : LabRefs, createdAt : CreatedAtValues]

GatheringTables == SeqsUpTo(GatheringRows, MaxGatherings)

----------------------------------------------------------------------------
(* Specification of compute_credenciamento *)

InitCred ==
    /\ labs \in LabTables
    /\ gatherings = <<>>
    /\ monthly = <<>>
    /\ gatheringBag = <<>>
    /\ representatives = <<>>
    /\ columns = NoLocation
    /\ result = NoResult

ComputeCredenciamento ==
    /\ result.op = "none"
    /\ \E now \in Instants :
         result' = [op |-> "compute_credenciamento", current_date |-> now,
                    labs |-> compute_credenciamento(labs, now)]
    /\ UNCHANGED <<representatives, labs, gatherings, columns, monthly, gatheringBag>>

NextCred == ComputeCredenciamento

SpecCred == InitCred /\ [][NextCred]_vars

(* Specification of compute_coleta_status (on the output of
   compute_credenciamento, as main calls it) *)

InitStatus ==
    /\ labs \in LabTablesActiveOnly
    /\ gatherings \in GatheringTables
    /\ monthly = <<>>
    /\ gatheringBag = <<>>
    /\ representatives = <<>>
    /\ columns = NoLocation
    /\ result = NoResult

ComputeColetaStatus ==
    /\ result.op = "none"
    /\ \E now \in Instants, w \in ActivityWindows :
         LET out == compute_coleta_status(compute_credenciamento(labs, now),
                                          gatherings, now, w)
         IN  result' = [op |-> "compute_coleta_status", current_date |-> now,
                        activity_window_days |-> w, labs |-> out.labs,
                        last_collection |-> out.last_collection]
    /\ UNCHANGED <<representatives, labs, gatherings, columns, monthly, gatheringBag>>

NextStatus == ComputeColetaStatus

SpecStatus == InitStatus /\ [][NextStatus]_vars

----------------------------------------------------------------------------
(* Floats, as far as the code's divisions produce them *)

Num(n, d) == [kind |-> "num", num |-> n, den |-> d]

Zero == Num(0, 1)

Inf == [kind |-> "inf", num |-> 1, den |-> 0]

(* a / b followed by fillna(0), for a >= 0 or b > 0: x / 0 is +inf for
   x > 0, and 0 / 0 is NaN, which fillna turns into 0 *)
DivFillna(a, b) == IF b = 0 THEN (IF a = 0 THEN Zero ELSE Inf) ELSE Num(a, b)

(* a / b * 100 followed by fillna(0) *)
PercentFillna(a, b) == DivFillna(a * 100, b)

(* f < k for an integer k; nothing infinite is below a number *)
FloatLess(f, k) == f.kind = "num" /\ f.num < k * f.den

FloatEq(f, n, d) == f.kind = "num" /\ f.num * d = n * f.den

----------------------------------------------------------------------------
(* sort_values(by): pandas sorts with kind="quicksort", which is not a stable
   sort, so rows with equal keys come out in an order the code does not
   choose.  SortOrders is the set of index orders such a sort may return. *)

RECURSIVE SortedSeqOf(_)
SortedSeqOf(S) ==
    IF S = {} THEN <<>> ELSE <<SetMin(S)>> \o SortedSeqOf(S \ {SetMin(S)})

RECURSIVE Reverse(_)
Reverse(s) == IF s = <<>> THEN <<>> ELSE Reverse(Tail(s)) \o <<Head(s)>>

Injections(S) ==
    {f \in [1..Cardinality(S) -> S] : \A a, b \in 1..Cardinality(S) : f[a] = f[b] => a = b}

RECURSIVE OrdersByKeys(_, _)
OrdersByKeys(keyOf, keys) ==
    IF keys = <<>> THEN {<<>>}
    ELSE {p \o rest : p \in Injections({i \in DOMAIN keyOf : keyOf[i] = Head(keys)}),
                      rest \in OrdersByKeys(keyOf, Tail(keys))}

(* keyOf: row index -> integer key *)
SortOrders(keyOf, ascending) ==
    LET ks == SortedSeqOf({keyOf[i] : i \in DOMAIN keyOf})
    IN  OrdersByKeys(keyOf, IF ascending THEN ks ELSE Reverse(ks))

----------------------------------------------------------------------------
(* Variation and drop detector: src/app.py *)

NaN == -2

ModerateDropPct == -10
SevereDropPct == -30

(* (Volume - previous) / previous * 100, then fillna(0) *)
variation_of(Volume, previous_volume) ==
    IF previous_volume = NaN THEN Zero
    ELSE PercentFillna(Volume - previous_volume, previous_volume)

MutDropNotStrict(variation, threshold) ==
    FloatLess(variation, threshold) \/ FloatEq(variation, threshold, 1)

is_drop(variation, threshold) == FloatLess(variation, threshold)

(* the columns compute_monthly_variations adds to the monthly table *)
variation_columns == {"previous_volume", "variation", "is_drop"}

(* compute_monthly_variations on the rows in the order sort_values('month')
   returned them: shift(1) takes the row before, whatever its month or category *)
shift1(rows, i) == IF i = 1 THEN NaN ELSE rows[i - 1].Volume

monthly_variation_rows(sorted) ==
    [i \in 1..Len(sorted) |->
        LET prev == shift1(sorted, i)
            var == variation_of(sorted[i].Volume, prev)
        IN  [month |-> sorted[i].month, Categoria |-> sorted[i].Categoria,
             Volume |-> sorted[i].Volume, previous_volume |-> prev,
             variation |-> var, is_drop |-> is_drop(var, ModerateDropPct)]]

(* the orders sort_values('month') may return *)
month_sort_orders(rows) == SortOrders([i \in 1..Len(rows) |-> rows[i].month], TRUE)

(* detect_lab_drops.  The gathering table is given as a bag: one entry
   [_laboratory, name_rep, month, count] for count rows of that laboratory
   created in that month (the function reads the rows only through
   groupby(...).size()). *)

NoTarget == [kind |-> "none", month |-> 0]

TargetMonth(m) == [kind |-> "month", month |-> m]

(* a string pd.Period() cannot parse *)
UnparseableTarget == [kind |-> "unparseable", month |-> 0]

rep_labs_ids(bag, rep_name) ==
    {bag[i]._laboratory : i \in {j \in 1..Len(bag) : bag[j].name_rep = rep_name}}

rep_gatherings(bag, rep_name) ==
    SelectSeq(bag, LAMBDA e : e._laboratory \in rep_labs_ids(bag, rep_name))

(* groupby(['_laboratory', 'month']).size(), sorted by laboratory and month *)
GroupKey(e) == e._laboratory * 100 + e.month

lab_monthly_volumes(g) ==
    LET keys == SortedSeqOf({GroupKey(g[i]) : i \in 1..Len(g)})
        members(k) == {i \in 1..Len(g) : GroupKey(g[i]) = k}
        volume(k) == SeqSum([j \in 1..Len(g) |-> IF GroupKey(g[j]) = k THEN g[j].count ELSE 0])
    IN  [n \in 1..Len(keys) |->
            LET any == g[CHOOSE i \in members(keys[n]) : TRUE]
            IN  [_laboratory |-> any._laboratory, month |-> any.month,
                 Volume |-> volume(keys[n])]]

(* groupby('_laboratory')['Volume'].shift(1): the row before, if it is a row
   of the same laboratory *)
group_shift1(rows, i) ==
    IF i > 1 /\ rows[i - 1]._laboratory = rows[i]._laboratory
    THEN rows[i - 1].Volume ELSE NaN

lab_monthly_series(g) ==
    LET rows == lab_monthly_volumes(g)
    IN  [i \in 1..Len(rows) |->
            LET prev == group_shift1(rows, i)
                var == variation_of(rows[i].Volume, prev)
            IN  [_laboratory |-> rows[i]._laboratory, month |-> rows[i].month,
                 Volume |-> rows[i].Volume, previous_volume |-> prev,
                 variation |-> var, is_drop |-> is_drop(var, SevereDropPct)]]

(* drops[drops['month'] == pd.Period(target_month)] inside try/except: pass *)
filter_target_month(drops, target_month) ==
    IF target_month.kind = "none" \/ drops = <<>> THEN drops
    ELSE IF target_month.kind = "unparseable" THEN drops
    ELSE SelectSeq(drops, LAMBDA r : r.month = target_month.month)

(* the columns of the table of drops: lab_monthly's and lab_info; the two
   early returns are pd.DataFrame(), a table without columns *)
drops_columns == {"_laboratory", "month", "Volume", "lab_info"} \cup variation_columns

detect_lab_drops(bag, rep_name, target_month) ==
    LET g == rep_gatherings(bag, rep_name)
        series == IF g = <<>> THEN <<>> ELSE lab_monthly_series(g)
        drops == filter_target_month(SelectSeq(series, LAMBDA r : r.is_drop), target_month)
    IN  [lab_monthly |-> series, drops |-> drops,
         columns |-> IF drops = <<>> THEN {} ELSE drops_columns]

----------------------------------------------------------------------------
(* Volume aggregator: compute_kpis, src/analytics.py *)

MonthsOf(rows) == {rows[i].month : i \in 1..Len(rows)}

(* df.groupby('month', as_index=False)['Volume'].sum() *)
month_totals(rows) ==
    LET ms == SortedSeqOf(MonthsOf(rows))
    IN  [n \in 1..Len(ms) |->
            SeqSum([j \in 1..Len(rows) |-> IF rows[j].month = ms[n] THEN rows[j].Volume ELSE 0])]

MutKpiSeriesNoCollapse(table) == [i \in 1..Len(table.rows) |-> table.rows[i].Volume]

kpi_series(table) ==
    IF "Categoria" \in table.columns
    THEN month_totals(table.rows)
    ELSE [i \in 1..Len(table.rows) |-> table.rows[i].Volume]

ZeroKpis == [total |-> 0, max |-> 0, min |-> 0, avg |-> 0]

compute_kpis(table) ==
    IF table.rows = <<>> \/ "Volume" \notin table.columns THEN ZeroKpis
    ELSE LET series == kpi_series(table)
             values == {series[i] : i \in 1..Len(series)}
         IN  IF series = <<>> THEN ZeroKpis
             ELSE [total |-> SeqSum(series), max |-> SetMax(values), min |-> SetMin(values),
                   avg |-> SeqSum(series) \div Len(series)]

----------------------------------------------------------------------------
(* Inputs of the variation detector and of compute_kpis *)

MaxMonths == 3

Months == 1..MaxMonths

Categorias == <<"Externo", "Interno">>

(* volumes of a table with one row per month; NaN marks a month without row *)
CollapsedVolumes == {NaN, 0, 60, 90, 100}

(* volumes of a table with one row per (month, category) *)
CategoryVolumes == {NaN, 5, 10}

PresentRows(rows) == SelectSeq(rows, LAMBDA r : r.Volume # NaN)

CollapsedTables ==
    {[columns |-> {"month", "Volume"},
      rows |-> PresentRows([m \in Months |-> [month |-> m, Categoria |-> "", Volume |-> f[m]]])] :
        f \in [Months -> CollapsedVolumes]}

CategoryTables ==
    {[columns |-> {"month", "Categoria", "Volume"},
      rows |-> PresentRows([k \in 1..(2 * MaxMonths) |->
                  [month |-> (k + 1) \div 2, Categoria |-> Categorias[2 - (k % 2)],
                   Volume |-> f[k]]])] :
        f \in [1..(2 * MaxMonths) -> CategoryVolumes]}

MonthlyTables == CollapsedTables \cup CategoryTables

EmptyMonthly == [columns |-> {"month", "Categoria", "Volume"}, rows |-> <<>>]

Reps == {"R1", "R2"}

(* monthly row counts of laboratory 1 and of laboratory 2; 0 is a month
   without gatherings *)
DropVolumes == {0, 60, 70, 100}

DropVolumesOther == {0, 60, 100}

(* laboratory 1 is of R1, laboratory 2 of R1 or of R2 *)
BagOf(rep2, f) ==
    LET cells == [k \in 1..(2 * MaxMonths) |->
                    LET l == ((k - 1) \div MaxMonths) + 1
                    IN  [_laboratory |-> l, name_rep |-> IF l = 1 THEN "R1" ELSE rep2,
                         month |-> ((k - 1) % MaxMonths) + 1, count |-> f[k]]]
    IN  SelectSeq(cells, LAMBDA e : e.count > 0)

GatheringBags ==
    {BagOf(rep2, f) : rep2 \in Reps,
                      f \in {h \in [1..(2 * MaxMonths) -> DropVolumes] :
                                \A k \in (MaxMonths + 1)..(2 * MaxMonths) :
                                    h[k] \in DropVolumesOther}}

Targets == {NoTarget, UnparseableTarget} \cup {TargetMonth(m) : m \in Months}

----------------------------------------------------------------------------
(* Specification of compute_monthly_variations, detect_lab_drops, compute_kpis *)

InitVariation ==
    /\ labs = <<>>
    /\ gatherings = <<>>
    /\ representatives = <<>>
    /\ columns = NoLocation
    /\ result = NoResult
    /\ \/ monthly \in MonthlyTables /\ gatheringBag = <<>>
       \/ monthly = EmptyMonthly /\ gatheringBag \in GatheringBags

ComputeMonthlyVariations ==
    /\ result.op = "none"
    /\ \/ /\ monthly.rows = <<>>
          /\ result' = [op |-> "compute_monthly_variations", columns |-> {}, rows |-> <<>>]
       \/ /\ monthly.rows # <<>>
          /\ \E order \in month_sort_orders(monthly.rows) :
               result' = [op |-> "compute_monthly_variations",
                          columns |-> monthly.columns \cup variation_columns,
                          rows |-> monthly_variation_rows(
                                      [i \in 1..Len(order) |-> monthly.rows[order[i]]])]
    /\ UNCHANGED <<representatives, labs, gatherings, columns, monthly, gatheringBag>>

DetectLabDrops ==
    /\ result.op = "none"
    /\ \E rep_name \in Reps, target_month \in Targets :
         LET out == detect_lab_drops(gatheringBag, rep_name, target_month)
         IN  result' = [op |-> "detect_lab_drops", rep_name |-> rep_name,
                        target_month |-> target_month,
                        lab_monthly |-> out.lab_monthly, columns |-> out.columns,
                        rows |-> out.drops]
    /\ UNCHANGED <<representatives, labs, gatherings, columns, monthly, gatheringBag>>

ComputeKpis ==
    /\ result.op = "none"
    /\ result' = [op |-> "compute_kpis", kpis |-> compute_kpis(monthly)]
    /\ UNCHANGED <<representatives, labs, gatherings, columns, monthly, gatheringBag>>

NextVariation == ComputeMonthlyVariations \/ DetectLabDrops \/ ComputeKpis

SpecVariation == InitVariation /\ [][NextVariation]_vars

----------------------------------------------------------------------------
(* Entity enrichment: merge_gatherings_with_labs, src/data_loader.py *)

NA == "<NA>"

fillna(v, default) == IF v = NA THEN default ELSE v

replace_nan(v, default) == IF v = "nan" THEN default ELSE v

(* A null in a boolean column: the row names the column in its field nulls,
   and the cell holds null_flag, which nothing reads. *)
null_flag == FALSE

nulls_of(row) == IF "nulls" \in DOMAIN row THEN row.nulls ELSE {}

isna(row, c) == c \in nulls_of(row)

(* df[c] == v on one row: false on a null *)
cell_is(row, c, v) == ~isna(row, c) /\ row[c] = v

(* the name a column of the right table takes in a merge with
   suffixes=("", "_lab"): its own, unless the left table has that column *)
suffixed(c, g) == IF c \notin DOMAIN g THEN c ELSE IF c = "active" THEN "active_lab" ELSE c

(* df_gatherings.merge(df_labs[available_columns], left_on="_laboratory",
   right_on="_id", how="left"), laboratory identifiers being unique: the
   gathering keeps its columns, and gets the laboratory's active flag and
   representative columns, null when no laboratory matches *)
left_merge(df_gatherings, df_labs) ==
    [i \in 1..Len(df_gatherings) |->
        LET g == df_gatherings[i]
            found == {j \in 1..Len(df_labs) : df_labs[j]._id = g._laboratory}
            lab == df_labs[CHOOSE j \in found : TRUE]
            right == [active |-> IF found = {} THEN null_flag ELSE lab.active,
                      name_rep |-> IF found = {} THEN NA ELSE lab.name_rep,
                      name_rep_clean |-> IF found = {} THEN NA ELSE lab.name_rep_clean,
                      Categoria |-> IF found = {} THEN NA ELSE lab.Categoria]
            nulls == nulls_of(g) \cup (IF found = {} THEN {suffixed("active", g)} ELSE {})
        IN  [c \in DOMAIN g \cup {suffixed(r, g) : r \in DOMAIN right}
                     \cup (IF nulls = {} THEN {} ELSE {"nulls"}) |->
                IF c = "nulls" THEN nulls
                ELSE IF c \in DOMAIN g THEN g[c]
                ELSE right[CHOOSE r \in DOMAIN right : suffixed(r, g) = c]]]

(* the left merge without the placeholders *)
MutMergeNoPlaceholders(df_gatherings, df_labs) == left_merge(df_gatherings, df_labs)

(* the left merge, then the placeholders for the missing representative and
   category *)
merge_gatherings_with_labs(df_gatherings, df_labs) ==
    LET merged == left_merge(df_gatherings, df_labs)
        filled(row) ==
            [c \in DOMAIN row |->
                IF c \in {"name_rep", "name_rep_clean"}
                THEN replace_nan(fillna(row[c], "Sem Representante"), "Sem Representante")
                ELSE IF c = "Categoria" THEN replace_nan(fillna(row[c], "Externo"), "Externo")
                ELSE row[c]]
    IN  [i \in 1..Len(merged) |-> filled(merged[i])]

----------------------------------------------------------------------------
(* Ranking and segmentation engine: src/analytics.py *)

(* the group keys (name_rep_clean, Categoria) and (Categoria) of the model, in
   the lexicographic order in which groupby and an outer merge return them *)
RepKeyOrder ==
    << <<"Ana", "Interno">>, <<"Bia", "Externo">>, <<"R1", "Interno">>, <<"R2", "Externo">>,
       <<"Sem Representante", "Externo">> >>

CatKeyOrder == << <<"Externo">>, <<"Interno">> >>

(* position of a key in the order; 0 for a key with a null, which groupby drops *)
KeyIndex(order, key) ==
    IF \E k \in 1..Len(order) : order[k] = key
    THEN CHOOSE k \in 1..Len(order) : order[k] = key
    ELSE 0

RepKey(row) == KeyIndex(RepKeyOrder, <<row.name_rep_clean, row.Categoria>>)

CatKey(row) == KeyIndex(CatKeyOrder, <<row.Categoria>>)

BoolInt(b) == IF b THEN 1 ELSE 0

(* the collection-side and the accreditation-side aggregates, outer-merged on
   the key, fillna(0), then the derived columns *)
taxa_ativacao(labs_ativos, labs_credenciados) == PercentFillna(labs_ativos, labs_credenciados)

produtividade(total_coletas, labs_ativos) == DivFillna(total_coletas, labs_ativos)

(* the group keys (state_code, state_name) and (state_code, state_name, city) *)
StateKeyOrder == << <<"RJ", "Rio de Janeiro">>, <<"SP", "Sao Paulo">> >>

CityKeyOrder ==
    << <<"RJ", "Rio de Janeiro", "Niteroi">>, <<"SP", "Sao Paulo", "Campinas">> >>

StateKey(row) == KeyIndex(StateKeyOrder, <<row.state_code, row.state_name>>)

CityKey(row) == KeyIndex(CityKeyOrder, <<row.state_code, row.state_name, row.city>>)

(* the groupby key of a row: by representative and category, by category, by
   state or by city *)
metrics_key(by, row) ==
    CASE by = "name_rep" -> RepKey(row)
      [] by = "Categoria" -> CatKey(row)
      [] by = "state" -> StateKey(row)
      [] by = "city" -> CityKey(row)

metrics_rows(df_gatherings_active, df_labs_status, by) ==
    LET G == df_gatherings_active
        L == df_labs_status
        GKey(r) == metrics_key(by, r)
        LKey(r) == metrics_key(by, r)
        gkeys == {GKey(G[i]) : i \in 1..Len(G)} \ {0}
        lkeys == {LKey(L[i]) : i \in 1..Len(L)} \ {0}
        keys == SortedSeqOf(gkeys \cup lkeys)
        row(k) ==
           LET ativos == Cardinality({G[i]._laboratory : i \in {j \in 1..Len(G) : GKey(G[j]) = k}})
               coletas == Cardinality({i \in 1..Len(G) : GKey(G[i]) = k /\ G[i].createdAt # NaT})
               total == Cardinality({i \in 1..Len(L) : LKey(L[i]) = k})
               cred == SeqSum([i \in 1..Len(L) |->
                          IF LKey(L[i]) = k THEN BoolInt(L[i].is_credenciado) ELSE 0])
           IN  [key |-> k, labs_ativos |-> ativos, total_coletas |-> coletas,
                total_labs |-> total, labs_credenciados |-> cred,
                labs_inativos |-> cred - ativos,
                taxa_ativacao |-> taxa_ativacao(ativos, cred),
                produtividade |-> produtividade(coletas, ativos)]
    IN  [n \in 1..Len(keys) |-> row(keys[n])]

(* before its sort_values('total_coletas', ascending=False) *)
compute_representative_metrics(df_gatherings_active, df_labs_status) ==
    LET rows == metrics_rows(df_gatherings_active, df_labs_status, "name_rep")
    IN  [i \in 1..Len(rows) |->
            WithColumn(WithColumn(rows[i], "name_rep", RepKeyOrder[rows[i].key][1]),
                       "Categoria", RepKeyOrder[rows[i].key][2])]

compute_category_summary(df_gatherings_active, df_labs_status) ==
    LET rows == metrics_rows(df_gatherings_active, df_labs_status, "Categoria")
    IN  [i \in 1..Len(rows) |-> WithColumn(rows[i], "Categoria", CatKeyOrder[rows[i].key][1])]

(* sort_values(column, ascending=False): the tables the sort may return *)
sort_desc(rows, column) ==
    {[i \in 1..Len(order) |-> rows[order[i]]] :
        order \in SortOrders([i \in 1..Len(rows) |-> rows[i][column]], FALSE)}

(* build_rankings *)
gatherings_valid(df_gatherings_active, df_labs_enriched) ==
    SelectSeq(df_gatherings_active,
              LAMBDA g : \E j \in 1..Len(df_labs_enriched) : df_labs_enriched[j]._id = g._laboratory)

(* groupby([name_rep_clean, "Categoria"]).size(), keys in order *)
ranking_reps_counts(valid) ==
    LET keys == SortedSeqOf({RepKey(valid[i]) : i \in 1..Len(valid)} \ {0})
    IN  [n \in 1..Len(keys) |->
            [name_rep |-> RepKeyOrder[keys[n]][1], Categoria |-> RepKeyOrder[keys[n]][2],
             Volume |-> Cardinality({i \in 1..Len(valid) : RepKey(valid[i]) = keys[n]})]]

(* groupby("_laboratory").size(), laboratories in order *)
ranking_labs_counts(valid) ==
    LET ids == SortedSeqOf({valid[i]._laboratory : i \in 1..Len(valid)})
    IN  [n \in 1..Len(ids) |->
            [_laboratory |-> ids[n],
             Volume |-> Cardinality({i \in 1..Len(valid) : valid[i]._laboratory = ids[n]})]]

status_coleta(x, current_date, activity_window_days) ==
    IF x # NaT /\ (current_date - x) \div HalfDaysPerDay <= activity_window_days THEN "Ativo"
    ELSE IF x # NaT THEN "Inativo" ELSE "Sem Coletas"

(* the two left merges and the display columns, on the sorted laboratory ranking *)
ranking_labs_enriched(sorted, df_labs_enriched, last_collection, current_date, w) ==
    [i \in 1..Len(sorted) |->
        LET lab == df_labs_enriched[CHOOSE j \in 1..Len(df_labs_enriched) :
                                        df_labs_enriched[j]._id = sorted[i]._laboratory]
            ultima == IF sorted[i]._laboratory \in DOMAIN last_collection
                      THEN last_collection[sorted[i]._laboratory] ELSE NaT
        IN  [_laboratory |-> sorted[i]._laboratory, Volume |-> sorted[i].Volume,
             is_credenciado |-> lab.is_credenciado, name_rep_clean |-> lab.name_rep_clean,
             Categoria |-> lab.Categoria, ultima_coleta |-> ultima,
             ultima_coleta_str |-> ultima_coleta_str(ultima),
             status_coleta |-> status_coleta(ultima, current_date, w)]]

----------------------------------------------------------------------------
(* Inputs of the ranking and segmentation engine *)

(* what enrich_labs_with_reps leaves in name_rep_clean and Categoria: the
   representative's, or nulls when the laboratory has none *)
LabRepKeys == { <<"R1", "Interno">>, <<"R2", "Externo">>, <<NA, NA>> }

EnrichedLabTables ==
    UNION {{[i \in 1..n |->
                [_id |-> i, active |-> f[i][1], approved |-> TRUE, exclusionDate |-> NaT,
                 createdAt |-> 2000 - 800,
                 name_rep |-> f[i][2][1], name_rep_clean |-> f[i][2][1],
                 Categoria |-> f[i][2][2]]] :
               f \in [1..n -> BOOLEAN \X LabRepKeys]} : n \in 1..MaxLabs}

SegmentGatheringTables ==
    SeqsUpTo([_laboratory : LabRefs, createdAt : {2000 - 20}], MaxGatherings + 1)

SegmentInstants == {2000}

DEFAULT_ACTIVITY_WINDOW_DAYS == 15

----------------------------------------------------------------------------
(* Specification of build_rankings, compute_representative_metrics and
   compute_category_summary, called as main calls them *)

InitSegments ==
    /\ labs \in EnrichedLabTables
    /\ gatherings \in SegmentGatheringTables
    /\ monthly = EmptyMonthly
    /\ gatheringBag = <<>>
    /\ representatives = <<>>
    /\ columns = NoLocation
    /\ result = NoResult

(* load_data's merge and main's compute_credenciamento *)
df_gatherings_active == merge_gatherings_with_labs(gatherings, labs)

df_labs_status(current_date) == compute_credenciamento(labs, current_date)

BuildRankings ==
    /\ result.op = "none"
    /\ \E now \in SegmentInstants :
         LET w == DEFAULT_ACTIVITY_WINDOW_DAYS
             cred == SelectSeq(df_labs_status(now), LAMBDA l : l.is_credenciado)
             status == compute_coleta_status(cred, df_gatherings_active, now, w)
             valid == gatherings_valid(df_gatherings_active, status.labs)
         IN  \E reps \in sort_desc(ranking_reps_counts(valid), "Volume"),
                sorted \in sort_desc(ranking_labs_counts(valid), "Volume") :
                result' = [op |-> "build_rankings", ranking_reps |-> reps,
                           ranking_labs |-> ranking_labs_enriched(sorted, status.labs,
                                               status.last_collection, now, w)]
    /\ UNCHANGED <<representatives, labs, gatherings, columns, monthly, gatheringBag>>

ComputeRepresentativeMetrics ==
    /\ result.op = "none"
    /\ \E now \in SegmentInstants :
         \E rows \in sort_desc(compute_representative_metrics(df_gatherings_active,
                                                              df_labs_status(now)),
                               "total_coletas") :
            result' = [op |-> "compute_representative_metrics", rows |-> rows]
    /\ UNCHANGED <<representatives, labs, gatherings, columns, monthly, gatheringBag>>

ComputeCategorySummary ==
    /\ result.op = "none"
    /\ \E now \in SegmentInstants :
         result' = [op |-> "compute_category_summary",
                    rows |-> compute_category_summary(df_gatherings_active,
                                                      df_labs_status(now))]
    /\ UNCHANGED <<representatives, labs, gatherings, columns, monthly, gatheringBag>>

NextSegments == BuildRankings \/ ComputeRepresentativeMetrics \/ ComputeCategorySummary

SpecSegments == InitSegments /\ [][NextSegments]_vars

----------------------------------------------------------------------------
(* Claims on the status classifier *)

LabIndexes == 1..Len(labs)

(* v differs from labs only in approved and exclusionDate *)
SameButApprovalExclusion(v) ==
    /\ Len(v) = Len(labs)
    /\ \A i \in LabIndexes : v[i]._id = labs[i]._id /\ v[i].active = labs[i].active

(* C1: compute_credenciamento sets is_credenciado of every laboratory to
   (active = TRUE), and every laboratory table that differs from the input only
   in approved and exclusionDate gets the same is_credenciado values. *)
C1_CredDependsOnlyOnActive ==
    result.op = "compute_credenciamento" =>
        /\ Len(result.labs) = Len(labs)
        /\ \A i \in LabIndexes : result.labs[i].is_credenciado = (labs[i].active = TRUE)
        /\ \A v \in LabTables :
              SameButApprovalExclusion(v) =>
                 \A i \in LabIndexes :
                    compute_credenciamento(v, result.current_date)[i].is_credenciado
                       = result.labs[i].is_credenciado

(* an active laboratory, not approved, excluded in the past, is credentialed *)
C1_Witness ==
    /\ result.op = "compute_credenciamento"
    /\ \E i \in LabIndexes :
          /\ labs[i].active /\ ~labs[i].approved
          /\ labs[i].exclusionDate # NaT /\ labs[i].exclusionDate < result.current_date
          /\ result.labs[i].is_credenciado

HasGathering(id) == \E k \in 1..Len(gatherings) : gatherings[k]._laboratory = id

ValidGatheringsOf(id) ==
    {k \in 1..Len(gatherings) :
        gatherings[k]._laboratory = id /\ gatherings[k].createdAt # NaT}

(* C2: a laboratory with no gathering in the table has days_since_last = 999,
   display "-" and ativo_coleta = FALSE, for every window and instant, with an
   empty table and with a table of other laboratories' gatherings. *)
C2_NoGatheringNeverActive ==
    result.op = "compute_coleta_status" =>
        \A i \in LabIndexes :
           ~HasGathering(labs[i]._id) =>
              /\ result.labs[i].days_since_last = NeverCollected
              /\ result.labs[i].days_since_last_display.txt = "-"
              /\ result.labs[i].ativo_coleta = FALSE

(* C3: for a laboratory with a gathering, days_since_last is the number of
   whole days from its latest createdAt to the reference instant, 0 when that
   gathering is after the instant, and ativo_coleta is
   (days_since_last <= activity_window_days). *)
C3_DaysSinceLastClamped ==
    result.op = "compute_coleta_status" =>
        \A i \in LabIndexes :
           ValidGatheringsOf(labs[i]._id) # {} =>
              LET latest == SetMax({gatherings[k].createdAt : k \in ValidGatheringsOf(labs[i]._id)})
                  elapsed == result.current_date - latest
                  d == result.labs[i].days_since_last
              IN  /\ d >= 0
                  /\ elapsed < 0 => d = 0
                  /\ elapsed >= 0 =>
                        d * HalfDaysPerDay <= elapsed /\ elapsed < (d + 1) * HalfDaysPerDay
                  /\ result.labs[i].ultima_coleta = latest
                  /\ result.labs[i].ativo_coleta = (d <= result.activity_window_days)
                  /\ (elapsed = 10 * HalfDaysPerDay) =>
                        /\ d = 10
                        /\ result.activity_window_days = 15 => result.labs[i].ativo_coleta
                        /\ result.activity_window_days = 5 => ~result.labs[i].ativo_coleta

(* a laboratory whose latest gathering is after the reference instant, two
   gatherings in the table, days clamped to 0 *)
C3_Witness ==
    /\ result.op = "compute_coleta_status"
    /\ \E i \in LabIndexes :
          /\ Cardinality(ValidGatheringsOf(labs[i]._id)) = 2
          /\ \E k \in ValidGatheringsOf(labs[i]._id) :
                gatherings[k].createdAt > result.current_date
          /\ \E k \in ValidGatheringsOf(labs[i]._id) :
                gatherings[k].createdAt < result.current_date
          /\ result.labs[i].days_since_last = 0
          /\ result.labs[i].ativo_coleta

----------------------------------------------------------------------------
(* Claims on the variation detector and on compute_kpis *)

NoPreviousVolume(r) == r.previous_volume = NaN \/ r.previous_volume = 0

(* C4: in the rows of compute_monthly_variations and in the per-laboratory
   series of detect_lab_drops, a period whose previous volume is zero or
   absent has variation exactly 0 (never infinite) and is_drop = FALSE. *)
C4_ZeroPreviousGivesZeroVariation ==
    /\ result.op = "compute_monthly_variations" =>
          \A i \in 1..Len(result.rows) :
             NoPreviousVolume(result.rows[i]) =>
                FloatEq(result.rows[i].variation, 0, 1) /\ ~result.rows[i].is_drop
    /\ result.op = "detect_lab_drops" =>
          \A i \in 1..Len(result.lab_monthly) :
             NoPreviousVolume(result.lab_monthly[i]) =>
                FloatEq(result.lab_monthly[i].variation, 0, 1) /\ ~result.lab_monthly[i].is_drop

(* variation = (Volume - previous) / previous * 100, and is_drop is exactly
   variation < threshold *)
VariationRowOk(r, threshold) ==
    r.previous_volume > 0 =>
       /\ r.variation.kind = "num"
       /\ r.variation.num * r.previous_volume
             = (r.Volume - r.previous_volume) * 100 * r.variation.den
       /\ r.is_drop = ((r.Volume - r.previous_volume) * 100 < threshold * r.previous_volume)
       /\ (r.Volume - r.previous_volume) * 100 = threshold * r.previous_volume => ~r.is_drop
       /\ (r.previous_volume = 100 /\ r.Volume = 60) =>
             FloatEq(r.variation, -40, 1) /\ r.is_drop

(* C5: for a non-zero previous volume, variation = (current - previous) /
   previous * 100; compute_monthly_variations flags exactly variation < -10,
   detect_lab_drops exactly variation < -30, both strict; [100, 60] gives -40,
   flagged at both thresholds. *)
C5_VariationAndStrictThresholds ==
    /\ result.op = "compute_monthly_variations" =>
          \A i \in 1..Len(result.rows) : VariationRowOk(result.rows[i], -10)
    /\ result.op = "detect_lab_drops" =>
          \A i \in 1..Len(result.lab_monthly) : VariationRowOk(result.lab_monthly[i], -30)

(* a laboratory going from 100 to 70, exactly -30 percent, is not flagged,
   while another row of the same call is *)
C5_Witness ==
    /\ result.op = "detect_lab_drops"
    /\ \E i, j \in 1..Len(result.lab_monthly) :
          /\ result.lab_monthly[i].previous_volume = 100
          /\ result.lab_monthly[i].Volume = 70
          /\ ~result.lab_monthly[i].is_drop
          /\ result.lab_monthly[j].previous_volume = 100
          /\ result.lab_monthly[j].Volume = 60
          /\ result.lab_monthly[j].is_drop

(* the rows of laboratory l in month m of the input bag *)
BagVolume(l, m) ==
    SeqSum([k \in 1..Len(gatheringBag) |->
               IF gatheringBag[k]._laboratory = l /\ gatheringBag[k].month = m
               THEN gatheringBag[k].count ELSE 0])

(* the rows of the monthly table for month m and category c *)
MonthlyCells(m, c) ==
    {k \in 1..Len(monthly.rows) : monthly.rows[k].month = m /\ monthly.rows[k].Categoria = c}

(* C6: previous_volume of a row is the volume of the immediately preceding
   calendar month of the same laboratory (detect_lab_drops), of the same
   grouping key (compute_monthly_variations); a month without volume counts
   as absent or 0. *)
C6_PreviousIsPrecedingPeriod ==
    /\ result.op = "detect_lab_drops" =>
          \A i \in 1..Len(result.lab_monthly) :
             LET r == result.lab_monthly[i]
                 before == BagVolume(r._laboratory, r.month - 1)
             IN  IF before > 0 THEN r.previous_volume = before ELSE NoPreviousVolume(r)
    /\ result.op = "compute_monthly_variations" =>
          \A i \in 1..Len(result.rows) :
             LET r == result.rows[i]
                 before == MonthlyCells(r.month - 1, r.Categoria)
             IN  IF before # {}
                 THEN \E k \in before : r.previous_volume = monthly.rows[k].Volume
                 ELSE NoPreviousVolume(r)

(* C7: detect_lab_drops with a target month returns exactly the rows of the
   call without target month whose month is the target; no row of another
   month is returned when a target month is given. *)
C7_TargetMonthFiltersAfterVariation ==
    (result.op = "detect_lab_drops" /\ result.target_month.kind # "none") =>
        LET all == detect_lab_drops(gatheringBag, result.rep_name, NoTarget).drops
        IN  /\ result.rows = SelectSeq(all, LAMBDA r : r.month = result.target_month.month)
            /\ \A i \in 1..Len(result.rows) :
                  /\ result.target_month.kind = "month"
                  /\ result.rows[i].month = result.target_month.month

TotalOfMonth(m) ==
    SeqSum([k \in 1..Len(monthly.rows) |->
               IF monthly.rows[k].month = m THEN monthly.rows[k].Volume ELSE 0])

(* C8: on a monthly table with a category column, total is the sum of all
   volumes, max and min are taken over the per-month totals, avg is the whole
   part of their mean; an empty table gives 0 everywhere. *)
C8_KpisOverMonthTotals ==
    (result.op = "compute_kpis" /\ "Categoria" \in monthly.columns) =>
        LET k == result.kpis
            ms == MonthsOf(monthly.rows)
            n == Cardinality(ms)
        IN  /\ {k.total, k.max, k.min, k.avg} \subseteq Nat
            /\ monthly.rows = <<>> => k = ZeroKpis
            /\ monthly.rows # <<>> =>
                  /\ k.total = SeqSum([i \in 1..Len(monthly.rows) |-> monthly.rows[i].Volume])
                  /\ \E m \in ms : k.max = TotalOfMonth(m)
                  /\ \A m \in ms : TotalOfMonth(m) <= k.max
                  /\ \E m \in ms : k.min = TotalOfMonth(m)
                  /\ \A m \in ms : k.min <= TotalOfMonth(m)
                  /\ k.avg * n <= k.total /\ k.total < (k.avg + 1) * n

(* one month with the two categories at 5 and 10: total = max = min = 15 *)
C8_Witness ==
    /\ result.op = "compute_kpis"
    /\ Len(monthly.rows) = 2
    /\ monthly.rows[1].month = monthly.rows[2].month
    /\ {monthly.rows[1].Volume, monthly.rows[2].Volume} = {5, 10}
    /\ result.kpis = [total |-> 15, max |-> 15, min |-> 15, avg |-> 15]

----------------------------------------------------------------------------
(* Claims on the ranking and segmentation engine *)

NonIncreasing(rows) ==
    \A i, j \in 1..Len(rows) : i < j => rows[i].Volume >= rows[j].Volume

(* C9: both tables of build_rankings are sorted by Volume in non-increasing
   order, and rows of equal Volume keep the relative order they had before the
   sort, which is the order of their group keys. *)
C9_RankingsSortedAndStable ==
    result.op = "build_rankings" =>
        /\ NonIncreasing(result.ranking_reps)
        /\ NonIncreasing(result.ranking_labs)
        /\ \A i, j \in 1..Len(result.ranking_reps) :
              (i < j /\ result.ranking_reps[i].Volume = result.ranking_reps[j].Volume) =>
                 RepKey([name_rep_clean |-> result.ranking_reps[i].name_rep,
                         Categoria |-> result.ranking_reps[i].Categoria])
                    < RepKey([name_rep_clean |-> result.ranking_reps[j].name_rep,
                              Categoria |-> result.ranking_reps[j].Categoria])
        /\ \A i, j \in 1..Len(result.ranking_labs) :
              (i < j /\ result.ranking_labs[i].Volume = result.ranking_labs[j].Volume) =>
                 result.ranking_labs[i]._laboratory < result.ranking_labs[j]._laboratory

(* C10: in every row of the metric tables, taxa_ativacao is 0 when
   labs_credenciados is 0, produtividade is 0 when labs_ativos is 0, and no
   rate is infinite. *)
C10_ZeroDenominatorGivesZero ==
    result.op \in {"compute_representative_metrics", "compute_category_summary"} =>
        \A i \in 1..Len(result.rows) :
           LET r == result.rows[i]
           IN  /\ r.labs_credenciados = 0 => FloatEq(r.taxa_ativacao, 0, 1)
               /\ r.labs_ativos = 0 => FloatEq(r.produtividade, 0, 1)
               /\ r.taxa_ativacao.kind = "num"
               /\ r.produtividade.kind = "num"

----------------------------------------------------------------------------
(* Geographic metrics: compute_geographic_metrics and compute_city_metrics,
   src/analytics.py.  What a call returns is a record: raised names the
   exception that left the function ("none" when it returned), columns and
   rows are the table returned. *)

required_cols(by) ==
    IF by = "state" THEN {"state_code", "state_name"}
    ELSE {"state_code", "state_name", "city"}

(* pd.DataFrame(columns=[...]) and the columns of the merged table *)
geo_columns(by) ==
    required_cols(by) \cup {"labs_ativos", "total_coletas", "total_labs", "labs_credenciados",
                            "labs_inativos", "taxa_ativacao", "produtividade"}

dropna_location(df, by) ==
    SelectSeq(df, LAMBDA r : \A c \in required_cols(by) : r[c] # NA)

geo_key_columns(by, k) ==
    IF by = "state"
    THEN [state_code |-> StateKeyOrder[k][1], state_name |-> StateKeyOrder[k][2]]
    ELSE [state_code |-> CityKeyOrder[k][1], state_name |-> CityKeyOrder[k][2],
          city |-> CityKeyOrder[k][3]]

(* the body shared by the two functions, before the final sort_values *)
geo_metrics(df_gatherings, df_labs, cols, by) ==
    IF ~(required_cols(by) \subseteq cols.gatherings)
    THEN [raised |-> "none", columns |-> geo_columns(by), rows |-> <<>>]
    ELSE IF ~(required_cols(by) \subseteq cols.labs)
    THEN [raised |-> "KeyError", columns |-> {}, rows |-> <<>>]
    ELSE LET df_gatherings_with_location == dropna_location(df_gatherings, by)
             df_labs_with_location == dropna_location(df_labs, by)
             rows == metrics_rows(df_gatherings_with_location, df_labs_with_location, by)
         IN  IF df_gatherings_with_location = <<>>
             THEN [raised |-> "none", columns |-> geo_columns(by), rows |-> <<>>]
             ELSE [raised |-> "none", columns |-> geo_columns(by),
                   rows |-> [i \in 1..Len(rows) |->
                               LET key == geo_key_columns(by, rows[i].key)
                               IN  [c \in geo_columns(by) |->
                                      IF c \in DOMAIN key THEN key[c] ELSE rows[i][c]]]]

compute_geographic_metrics(df_gatherings, df_labs, cols) ==
    geo_metrics(df_gatherings, df_labs, cols, "state")

compute_city_metrics(df_gatherings, df_labs, cols) ==
    geo_metrics(df_gatherings, df_labs, cols, "city")

(* Inputs: every table carries no location column, the two state columns, or
   the state columns and city; a location may be null in part or in whole *)
LocationColumnSets == {{}, required_cols("state"), required_cols("city")}

LocationValues ==
    {[state_code |-> "RJ", state_name |-> "Rio de Janeiro", city |-> "Niteroi"],
     [state_code |-> "SP", state_name |-> "Sao Paulo", city |-> "Campinas"],
     [state_code |-> "SP", state_name |-> "Sao Paulo", city |-> NA],
     [state_code |-> NA, state_name |-> NA, city |-> NA]}

WithLocation(row, loc, cols) ==
    [c \in DOMAIN row \cup cols |-> IF c \in cols THEN loc[c] ELSE row[c]]

GeoLabTables(cols) ==
    UNION {{[i \in 1..n |-> WithLocation(LabRow(i, f[i][1], TRUE, NaT), f[i][2], cols)] :
               f \in [1..n -> BOOLEAN \X LocationValues]} : n \in 1..MaxLabs}

GeoGatheringTables(cols) ==
    UNION {{[i \in 1..n |->
                WithLocation([_laboratory |-> f[i][1], createdAt |-> 2000 - 20], f[i][2], cols)] :
               f \in [1..n -> (1..MaxLabs) \X LocationValues]} : n \in 0..MaxGatherings}

InitGeo ==
    /\ columns \in [labs : LocationColumnSets, gatherings : LocationColumnSets]
    /\ labs \in GeoLabTables(columns.labs)
    /\ gatherings \in GeoGatheringTables(columns.gatherings)
    /\ representatives = <<>>
    /\ monthly = EmptyMonthly
    /\ gatheringBag = <<>>
    /\ result = NoResult

GeoCall(op, out) ==
    \E rows \in sort_desc(out.rows, "total_coletas") :
       result' = [op |-> op, raised |-> out.raised, columns |-> out.columns, rows |-> rows]

ComputeGeographicMetrics ==
    /\ result.op = "none"
    /\ \E now \in SegmentInstants :
         GeoCall("compute_geographic_metrics",
                 compute_geographic_metrics(gatherings, df_labs_status(now), columns))
    /\ UNCHANGED <<representatives, labs, gatherings, columns, monthly, gatheringBag>>

ComputeCityMetrics ==
    /\ result.op = "none"
    /\ \E now \in SegmentInstants :
         GeoCall("compute_city_metrics",
                 compute_city_metrics(gatherings, df_labs_status(now), columns))
    /\ UNCHANGED <<representatives, labs, gatherings, columns, monthly, gatheringBag>>

NextGeo == ComputeGeographicMetrics \/ ComputeCityMetrics

SpecGeo == InitGeo /\ [][NextGeo]_vars

GeoRowsOfKey(rows, by, key) ==
    {i \in 1..Len(rows) : [c \in required_cols(by) |-> rows[i][c]] = key}

ResultLevel == IF result.op = "compute_geographic_metrics" THEN "state" ELSE "city"

(* C11: in the state and city tables, when both input tables carry the location
   columns, every grouping key that occurs in the gatherings or in the
   laboratories appears in exactly one row of the result, with 0 for the counts
   of the side on which it does not occur; a key that has laboratories but no
   gatherings still appears. *)
C11_OuterJoinKeepsEveryKey ==
    (/\ result.op \in {"compute_geographic_metrics", "compute_city_metrics"}
     /\ required_cols(ResultLevel) \subseteq columns.gatherings
     /\ required_cols(ResultLevel) \subseteq columns.labs) =>
        LET by == ResultLevel
            gkeys == {[c \in required_cols(by) |-> gatherings[i][c]] :
                         i \in {j \in 1..Len(gatherings) :
                                   \A c \in required_cols(by) : gatherings[j][c] # NA}}
            lkeys == {[c \in required_cols(by) |-> labs[i][c]] :
                         i \in {j \in 1..Len(labs) :
                                   \A c \in required_cols(by) : labs[j][c] # NA}}
        IN  \A key \in gkeys \cup lkeys :
               /\ Cardinality(GeoRowsOfKey(result.rows, by, key)) = 1
               /\ \A i \in GeoRowsOfKey(result.rows, by, key) :
                     /\ key \notin gkeys =>
                           result.rows[i].labs_ativos = 0 /\ result.rows[i].total_coletas = 0
                     /\ key \notin lkeys =>
                           result.rows[i].total_labs = 0 /\ result.rows[i].labs_credenciados = 0

(* C12: when the state/city columns are absent from the gatherings table, from
   the laboratories table or from both, the two functions return an empty table
   with exactly the documented columns and do not raise. *)
C12_NoLocationColumnsGivesEmptyTable ==
    (/\ result.op \in {"compute_geographic_metrics", "compute_city_metrics"}
     /\ \/ ~(required_cols(ResultLevel) \subseteq columns.gatherings)
        \/ ~(required_cols(ResultLevel) \subseteq columns.labs)) =>
        /\ result.raised = "none"
        /\ result.rows = <<>>
        /\ result.columns = geo_columns(ResultLevel)

----------------------------------------------------------------------------
(* Alerts and new accreditations: compute_inactive_labs_alert and
   compute_new_accreditations, src/analytics.py, and the part of main,
   src/app.py, that feeds them *)

(* out = df[df["active"] == True], then the two optional exclusions, each
   applied only when its column exists *)
filter_active_gatherings(df, exclude_test, exclude_disabled) ==
    SelectSeq(df, LAMBDA g :
        /\ cell_is(g, "active", TRUE)
        /\ (exclude_test /\ "test" \in DOMAIN g) => cell_is(g, "test", FALSE)
        /\ (exclude_disabled /\ "disabledInReport" \in DOMAIN g) =>
              cell_is(g, "disabledInReport", FALSE))

(* new_labs[columns_to_return]: name_rep_clean is returned when the table has it *)
columns_to_return(row, computed) ==
    LET names == {"name_rep", "Categoria", "fantasyName", "cnpj"} \cup computed
                    \cup (IF "name_rep_clean" \in DOMAIN row THEN {"name_rep_clean"} ELSE {})
    IN  [c \in names |-> row[c]]

MutRecentStrict(createdAt, date_limit) == createdAt > date_limit

recent_enough(createdAt, date_limit) == createdAt >= date_limit

(* the table before its sort_values('createdAt', ascending=False) *)
compute_new_accreditations(df_labs, current_date, months_back) ==
    LET date_limit == current_date - months_back * 30 * HalfDaysPerDay
        df_labs_clean == dropna_createdAt(df_labs)
        new_labs == SelectSeq(df_labs_clean, LAMBDA l :
                        l.is_credenciado = TRUE /\ recent_enough(l.createdAt, date_limit))
    IN  [i \in 1..Len(new_labs) |->
            LET l == new_labs[i]
                row == [c \in DOMAIN l \cup {"dias_credenciado", "data_credenciamento"} |->
                          CASE c = "dias_credenciado" ->
                                  (current_date - l.createdAt) \div HalfDaysPerDay
                            [] c = "data_credenciamento" ->
                                  [txt |-> "date", day |-> l.createdAt \div HalfDaysPerDay]
                            [] OTHER -> l[c]]
            IN  columns_to_return(row, {"createdAt", "data_credenciamento", "dias_credenciado"})]

MutAlertNotStrict(dias_sem_coletar, inactivity_threshold_days) ==
    dias_sem_coletar >= inactivity_threshold_days

exceeds_threshold(dias_sem_coletar, inactivity_threshold_days) ==
    dias_sem_coletar > inactivity_threshold_days

(* groupby('_laboratory')['createdAt'].max() over the active gatherings of all
   the rows handed in; no row at all for an empty table *)
last_collections(df_gatherings_merged) ==
    IF df_gatherings_merged = <<>> THEN <<>>
    ELSE last_collection_of(dropna_createdAt(
             filter_active_gatherings(df_gatherings_merged, FALSE, TRUE)))

(* the table before its sort_values('dias_sem_coletar', ascending=False); a
   KeyError when the merged table has no createdAt_coleta (labs_cred has the
   columns of df_labs, whatever rows the selection keeps) *)
compute_inactive_labs_alert(df_labs, df_gatherings_merged, current_date, threshold_days) ==
    LET labs_cred == SelectSeq(df_labs, LAMBDA l : l.is_credenciado = TRUE)
        last == last_collections(df_gatherings_merged)
        labs_with_last_collection ==
            [i \in 1..Len(labs_cred) |->
                LET l == labs_cred[i]
                    dt == createdAt_coleta(l, last)
                    dias == _days_diff_safe(dt, current_date)
                IN  [c \in DOMAIN l \cup {"dias_sem_coletar", "ultima_coleta_str",
                                          "dias_sem_coletar_display"} |->
                        CASE c = "dias_sem_coletar" -> dias
                          [] c = "ultima_coleta_str" -> ultima_coleta_str(dt)
                          [] c = "dias_sem_coletar_display" -> days_display(dias)
                          [] OTHER -> l[c]]]
        inactive_labs == SelectSeq(labs_with_last_collection, LAMBDA r :
                             exceeds_threshold(r.dias_sem_coletar, threshold_days))
    IN  IF coleta_column(df_labs) # "createdAt_coleta"
        THEN [raised |-> "KeyError", rows |-> <<>>]
        ELSE [raised |-> "none",
              rows |-> [i \in 1..Len(inactive_labs) |->
                          columns_to_return(inactive_labs[i],
                              {"ultima_coleta_str", "dias_sem_coletar_display",
                               "dias_sem_coletar"})]]

(* main: Series.dt.year, with years of 365 days *)
year_of(createdAt) == createdAt \div (365 * HalfDaysPerDay)

(* st.selectbox over no option returns None, which no year equals *)
NoYear == NaT

year_options(df_gatherings) ==
    {year_of(df_gatherings[i].createdAt) :
        i \in {j \in 1..Len(df_gatherings) : df_gatherings[j].createdAt # NaT}}

MutMergedOfSelectedYear(df_gatherings, year) ==
    SelectSeq(df_gatherings, LAMBDA g : g.createdAt # NaT /\ year_of(g.createdAt) = year)

(* df_gatherings_merged = df_gatherings.copy(), taken before the year filter *)
df_gatherings_merged(df_gatherings, year) == df_gatherings

(* df_gatherings[df_gatherings["createdAt"].dt.year == year], then the filter *)
gatherings_of_year(df_gatherings, year) ==
    filter_active_gatherings(
        SelectSeq(df_gatherings, LAMBDA g : g.createdAt # NaT /\ year_of(g.createdAt) = year),
        FALSE, TRUE)

(* the inactivity threshold the slider of the alert tab starts with *)
DefaultThresholdDays == 30

(* what one pass of main computes for the status cards and for the alert tab,
   with the sliders at their defaults and no representative filter *)
main_pass(df_labs, df_gatherings, current_date, year) ==
    LET labs_status == compute_credenciamento(df_labs, current_date)
        labs_cred == SelectSeq(labs_status, LAMBDA l : l.is_credenciado)
        status == compute_coleta_status(labs_cred, gatherings_of_year(df_gatherings, year),
                                        current_date, DEFAULT_ACTIVITY_WINDOW_DAYS)
    IN  [df_labs_cred |-> status.labs,
         inactive_labs |-> compute_inactive_labs_alert(labs_status,
                               df_gatherings_merged(df_gatherings, year), current_date,
                               DefaultThresholdDays).rows]

(* Inputs *)
AlertLabRow(i, a, c) ==
    [_id |-> i, active |-> a, approved |-> TRUE, exclusionDate |-> NaT, createdAt |-> c,
     fantasyName |-> "Laboratorio", cnpj |-> i, name_rep |-> "INT-R1", Categoria |-> "Interno"]

AlertLabTables ==
    UNION {{[i \in 1..n |-> AlertLabRow(i, f[i], 2000 - 800)] : f \in [1..n -> BOOLEAN]} :
               n \in 1..MaxLabs}

(* around the limits of one and three months back: one day and half a day
   before the limit, at the limit, and half a day after the reference instant *)
AccreditationDates ==
    {NaT, 2000 - 180, 2000 - 60 - 2, 2000 - 60 - 1, 2000 - 60, 2000 + 1}

AccreditationLabTables ==
    UNION {{[i \in 1..n |-> AlertLabRow(i, f[i][1], f[i][2])] :
               f \in [1..n -> BOOLEAN \X AccreditationDates]} : n \in 1..MaxLabs}

MonthsBack == {1, 3}

(* null, 300 days before the reference instant (the year before), 50 days
   before *)
AlertCreatedAt == <<NaT, 2000 - 600, 2000 - 100>>

(* active, test, disabledInReport *)
GatheringFlags ==
    <<<<TRUE, FALSE, FALSE>>, <<TRUE, TRUE, FALSE>>, <<FALSE, FALSE, FALSE>>,
      <<TRUE, FALSE, TRUE>>>>

(* the k-th gathering row: every laboratory, instant and flag combination *)
AlertGatheringRow(k) ==
    LET flags == GatheringFlags[((k - 1) % Len(GatheringFlags)) + 1]
    IN  [_laboratory |-> ((k - 1) \div (Len(GatheringFlags) * Len(AlertCreatedAt))) + 1,
         createdAt |-> AlertCreatedAt[(((k - 1) \div Len(GatheringFlags)) % Len(AlertCreatedAt)) + 1],
         active |-> flags[1], test |-> flags[2], disabledInReport |-> flags[3]]

(* the functions group the rows by laboratory and take maxima, so each bag of
   rows is drawn in one order *)
AlertGatheringTables ==
    UNION {{[i \in 1..n |-> AlertGatheringRow(f[i])] :
               f \in {g \in [1..n -> 1..(MaxLabs * Len(AlertCreatedAt) * Len(GatheringFlags))] :
                         \A a, b \in 1..n : a < b => g[a] <= g[b]}} :
               n \in 0..MaxGatherings}

AlertThresholds == {30, 50, 999}

InitAlerts ==
    /\ \/ labs \in AlertLabTables /\ gatherings \in AlertGatheringTables
       \/ labs \in AccreditationLabTables /\ gatherings = <<>>
    /\ representatives = <<>>
    /\ columns = NoLocation
    /\ monthly = EmptyMonthly
    /\ gatheringBag = <<>>
    /\ result = NoResult

ComputeInactiveLabsAlert ==
    /\ result.op = "none"
    /\ \E now \in SegmentInstants, threshold \in AlertThresholds :
         \E rows \in sort_desc(compute_inactive_labs_alert(df_labs_status(now), gatherings,
                                                           now, threshold).rows,
                               "dias_sem_coletar") :
            result' = [op |-> "compute_inactive_labs_alert", current_date |-> now,
                       inactivity_threshold_days |-> threshold, rows |-> rows]
    /\ UNCHANGED <<representatives, labs, gatherings, columns, monthly, gatheringBag>>

ComputeNewAccreditations ==
    /\ result.op = "none"
    /\ \E now \in SegmentInstants, months_back \in MonthsBack :
         \E rows \in sort_desc(compute_new_accreditations(df_labs_status(now), now,
                                                          months_back),
                               "createdAt") :
            result' = [op |-> "compute_new_accreditations", current_date |-> now,
                       months_back |-> months_back, rows |-> rows]
    /\ UNCHANGED <<representatives, labs, gatherings, columns, monthly, gatheringBag>>

MainPass ==
    /\ result.op = "none"
    /\ \E now \in SegmentInstants :
         \E year \in (IF year_options(gatherings) = {} THEN {NoYear}
                      ELSE year_options(gatherings)) :
            LET pass == main_pass(labs, gatherings, now, year)
            IN  \E rows \in sort_desc(pass.inactive_labs, "dias_sem_coletar") :
                   result' = [op |-> "main", current_date |-> now, year |-> year,
                              df_labs_cred |-> pass.df_labs_cred, inactive_labs |-> rows]
    /\ UNCHANGED <<representatives, labs, gatherings, columns, monthly, gatheringBag>>

NextAlerts == ComputeInactiveLabsAlert \/ ComputeNewAccreditations \/ MainPass

SpecAlerts == InitAlerts /\ [][NextAlerts]_vars

----------------------------------------------------------------------------
(* Claims on the alerts and the new accreditations *)

(* the gatherings that count for a laboratory: its own, active, not disabled
   in reports, with a valid instant *)
CountedGatheringsOf(id) ==
    {k \in ValidGatheringsOf(id) :
        gatherings[k].active = TRUE /\ gatherings[k].disabledInReport = FALSE}

DaysSinceLatest(S, now) ==
    IF S = {} THEN NeverCollected
    ELSE Max2((now - SetMax({gatherings[k].createdAt : k \in S})) \div HalfDaysPerDay, 0)

RowsOfLab(rows, lab) == {i \in 1..Len(rows) : rows[i].cnpj = lab.cnpj}

RowSet(rows) == {rows[i] : i \in 1..Len(rows)}

SortedDescBy(rows, column) ==
    \A i, j \in 1..Len(rows) : i < j => rows[i][column] >= rows[j][column]

(* C13: in a pass of main, the days without collection of the alert come from
   the latest active gathering of the laboratory over all years, whichever year
   is selected, and the status of compute_coleta_status comes from the
   gatherings of the selected year only. *)
C13_AlertUsesAllYearsStatusSelectedYear ==
    result.op = "main" =>
        /\ \A i \in 1..Len(labs) : labs[i].active = TRUE =>
              LET allYears == DaysSinceLatest(CountedGatheringsOf(labs[i]._id),
                                              result.current_date)
                  ofYear == DaysSinceLatest(
                                {k \in CountedGatheringsOf(labs[i]._id) :
                                    year_of(gatherings[k].createdAt) = result.year},
                                result.current_date)
              IN  /\ \A r \in RowsOfLab(result.inactive_labs, labs[i]) :
                        result.inactive_labs[r].dias_sem_coletar = allYears
                  /\ (allYears > DefaultThresholdDays) <=>
                        RowsOfLab(result.inactive_labs, labs[i]) # {}
                  /\ \A r \in RowsOfLab(result.df_labs_cred, labs[i]) :
                        result.df_labs_cred[r].days_since_last = ofYear
        /\ \A y \in year_options(gatherings) :
              RowSet(main_pass(labs, gatherings, result.current_date, y).inactive_labs)
                 = RowSet(result.inactive_labs)

(* a laboratory whose latest gathering is 50 days old, while the selected year
   holds no gathering of it or an older one *)
C13_Witness ==
    /\ result.op = "main"
    /\ \E r \in 1..Len(result.inactive_labs), q \in 1..Len(result.df_labs_cred) :
          /\ result.inactive_labs[r].cnpj = result.df_labs_cred[q].cnpj
          /\ result.inactive_labs[r].dias_sem_coletar = 50
          /\ result.df_labs_cred[q].days_since_last > 50

(* C14: compute_inactive_labs_alert returns exactly the laboratories with
   is_credenciado = TRUE whose days since the last collection (999 when they
   never collected) are strictly above the threshold handed in, once each, in
   non-increasing order of days without collection. *)
C14_AlertStrictlyAboveThreshold ==
    result.op = "compute_inactive_labs_alert" =>
        /\ \A i \in 1..Len(labs) :
              LET dias == DaysSinceLatest(CountedGatheringsOf(labs[i]._id),
                                          result.current_date)
                  listed == RowsOfLab(result.rows, labs[i])
              IN  /\ Cardinality(listed) =
                        (IF labs[i].active = TRUE /\ dias > result.inactivity_threshold_days
                         THEN 1 ELSE 0)
                  /\ \A r \in listed :
                        /\ result.rows[r].dias_sem_coletar = dias
                        /\ result.rows[r].dias_sem_coletar_display = days_display(dias)
        /\ \A r \in 1..Len(result.rows) : \E i \in 1..Len(labs) : r \in RowsOfLab(result.rows, labs[i])
        /\ SortedDescBy(result.rows, "dias_sem_coletar")

(* threshold 50: a laboratory 50 days without collection is left out, one that
   is 300 days without collection is listed *)
C14_Witness ==
    /\ result.op = "compute_inactive_labs_alert"
    /\ result.inactivity_threshold_days = 50
    /\ \E r \in 1..Len(result.rows) : result.rows[r].dias_sem_coletar = 300
    /\ \E i \in 1..Len(labs) :
          /\ labs[i].active = TRUE
          /\ DaysSinceLatest(CountedGatheringsOf(labs[i]._id), result.current_date) = 50
          /\ RowsOfLab(result.rows, labs[i]) = {}

AccreditationLimit == result.current_date - result.months_back * 30 * HalfDaysPerDay

(* C15: compute_new_accreditations returns exactly the laboratories with
   is_credenciado = TRUE and createdAt >= reference instant - months_back * 30
   days, once each, most recent createdAt first, with dias_credenciado the
   whole days (the floor) from createdAt to the reference instant. *)
C15_NewAccreditationsWithinLimit ==
    result.op = "compute_new_accreditations" =>
        /\ \A i \in 1..Len(labs) :
              LET listed == RowsOfLab(result.rows, labs[i])
              IN  /\ Cardinality(listed) =
                        (IF /\ labs[i].active = TRUE
                            /\ labs[i].createdAt # NaT
                            /\ labs[i].createdAt >= AccreditationLimit
                         THEN 1 ELSE 0)
                  /\ \A r \in listed :
                        /\ result.rows[r].createdAt = labs[i].createdAt
                        /\ result.rows[r].dias_credenciado * HalfDaysPerDay
                              <= result.current_date - labs[i].createdAt
                        /\ result.current_date - labs[i].createdAt
                              < (result.rows[r].dias_credenciado + 1) * HalfDaysPerDay
        /\ \A r \in 1..Len(result.rows) : \E i \in 1..Len(labs) : r \in RowsOfLab(result.rows, labs[i])
        /\ SortedDescBy(result.rows, "createdAt")

(* one month back: a laboratory created exactly at the limit is listed, one
   created one day before the limit is not *)
C15_Witness ==
    /\ result.op = "compute_new_accreditations"
    /\ \E r \in 1..Len(result.rows) : result.rows[r].createdAt = AccreditationLimit
    /\ \E i \in 1..Len(labs) :
          /\ labs[i].active = TRUE
          /\ labs[i].createdAt = AccreditationLimit - HalfDaysPerDay
          /\ RowsOfLab(result.rows, labs[i]) = {}

----------------------------------------------------------------------------
(* Representative names: clean_representative_name and categorize_rep,
   src/data_loader.py.  A name is a string; the two functions work on its
   characters, so NameChars gives the characters of every string of the model
   (the en dash, U+2013, is written {en dash}) and Str is its inverse. *)

NameChars ==
    ("EXT-Ana" :> <<"E", "X", "T", "-", "A", "n", "a">>)
    @@ ("EXT-" :> <<"E", "X", "T", "-">>)
    @@ ("EXT-INT-Bia" :> <<"E", "X", "T", "-", "I", "N", "T", "-", "B", "i", "a">>)
    @@ ("EXT -Ana" :> <<"E", "X", "T", " ", "-", "A", "n", "a">>)
    @@ ("EXT -" :> <<"E", "X", "T", " ", "-">>)
    @@ ("EXT -INT-Bia" :> <<"E", "X", "T", " ", "-", "I", "N", "T", "-", "B", "i", "a">>)
    @@ ("INT-Ana" :> <<"I", "N", "T", "-", "A", "n", "a">>)
    @@ ("INT-" :> <<"I", "N", "T", "-">>)
    @@ ("INT-INT-Bia" :> <<"I", "N", "T", "-", "I", "N", "T", "-", "B", "i", "a">>)
    @@ ("INT -Ana" :> <<"I", "N", "T", " ", "-", "A", "n", "a">>)
    @@ ("INT -" :> <<"I", "N", "T", " ", "-">>)
    @@ ("INT -INT-Bia" :> <<"I", "N", "T", " ", "-", "I", "N", "T", "-", "B", "i", "a">>)
    @@ ("CAEPTOX - Ana" :> <<"C", "A", "E", "P", "T", "O", "X", " ", "-", " ", "A", "n", "a">>)
    @@ ("CAEPTOX - " :> <<"C", "A", "E", "P", "T", "O", "X", " ", "-", " ">>)
    @@ ("CAEPTOX - INT-Bia" :> <<"C", "A", "E", "P", "T", "O", "X", " ", "-", " ", "I", "N", "T", "-", "B", "i", "a">>)
    @@ ("CAEPTOX-Ana" :> <<"C", "A", "E", "P", "T", "O", "X", "-", "A", "n", "a">>)
    @@ ("CAEPTOX-" :> <<"C", "A", "E", "P", "T", "O", "X", "-">>)
    @@ ("CAEPTOX-INT-Bia" :> <<"C", "A", "E", "P", "T", "O", "X", "-", "I", "N", "T", "-", "B", "i", "a">>)
    @@ ("CAEPTOX {en dash} Ana" :> <<"C", "A", "E", "P", "T", "O", "X", " ", "{en dash}", " ", "A", "n", "a">>)
    @@ ("CAEPTOX {en dash} " :> <<"C", "A", "E", "P", "T", "O", "X", " ", "{en dash}", " ">>)
    @@ ("CAEPTOX {en dash} INT-Bia" :> <<"C", "A", "E", "P", "T", "O", "X", " ", "{en dash}", " ", "I", "N", "T", "-", "B", "i", "a">>)
    @@ ("CAEPTOX{en dash}Ana" :> <<"C", "A", "E", "P", "T", "O", "X", "{en dash}", "A", "n", "a">>)
    @@ ("CAEPTOX{en dash}" :> <<"C", "A", "E", "P", "T", "O", "X", "{en dash}">>)
    @@ ("CAEPTOX{en dash}INT-Bia" :> <<"C", "A", "E", "P", "T", "O", "X", "{en dash}", "I", "N", "T", "-", "B", "i", "a">>)
    @@ ("TLMK - Ana" :> <<"T", "L", "M", "K", " ", "-", " ", "A", "n", "a">>)
    @@ ("TLMK - " :> <<"T", "L", "M", "K", " ", "-", " ">>)
    @@ ("TLMK - INT-Bia" :> <<"T", "L", "M", "K", " ", "-", " ", "I", "N", "T", "-", "B", "i", "a">>)
    @@ ("TLMKAna" :> <<"T", "L", "M", "K", "A", "n", "a">>)
    @@ ("TLMK" :> <<"T", "L", "M", "K">>)
    @@ ("TLMKINT-Bia" :> <<"T", "L", "M", "K", "I", "N", "T", "-", "B", "i", "a">>)
    @@ ("TMLK - Ana" :> <<"T", "M", "L", "K", " ", "-", " ", "A", "n", "a">>)
    @@ ("TMLK - " :> <<"T", "M", "L", "K", " ", "-", " ">>)
    @@ ("TMLK - INT-Bia" :> <<"T", "M", "L", "K", " ", "-", " ", "I", "N", "T", "-", "B", "i", "a">>)
    @@ ("CAEPTOX -Ana" :> <<"C", "A", "E", "P", "T", "O", "X", " ", "-", "A", "n", "a">>)
    @@ ("CAEPTOX -" :> <<"C", "A", "E", "P", "T", "O", "X", " ", "-">>)
    @@ ("CAEPTOX -INT-Bia" :> <<"C", "A", "E", "P", "T", "O", "X", " ", "-", "I", "N", "T", "-", "B", "i", "a">>)
    @@ ("CAEPTOX {en dash}Ana" :> <<"C", "A", "E", "P", "T", "O", "X", " ", "{en dash}", "A", "n", "a">>)
    @@ ("CAEPTOX {en dash}" :> <<"C", "A", "E", "P", "T", "O", "X", " ", "{en dash}">>)
    @@ ("CAEPTOX {en dash}INT-Bia" :> <<"C", "A", "E", "P", "T", "O", "X", " ", "{en dash}", "I", "N", "T", "-", "B", "i", "a">>)
    @@ ("int-Ana" :> <<"i", "n", "t", "-", "A", "n", "a">>)
    @@ ("int-" :> <<"i", "n", "t", "-">>)
    @@ ("int-INT-Bia" :> <<"i", "n", "t", "-", "I", "N", "T", "-", "B", "i", "a">>)
    @@ ("Ext-Ana" :> <<"E", "x", "t", "-", "A", "n", "a">>)
    @@ ("Ext-" :> <<"E", "x", "t", "-">>)
    @@ ("Ext-INT-Bia" :> <<"E", "x", "t", "-", "I", "N", "T", "-", "B", "i", "a">>)
    @@ ("tlmk - Ana" :> <<"t", "l", "m", "k", " ", "-", " ", "A", "n", "a">>)
    @@ ("tlmk - " :> <<"t", "l", "m", "k", " ", "-", " ">>)
    @@ ("tlmk - INT-Bia" :> <<"t", "l", "m", "k", " ", "-", " ", "I", "N", "T", "-", "B", "i", "a">>)
    @@ ("Caeptox-Ana" :> <<"C", "a", "e", "p", "t", "o", "x", "-", "A", "n", "a">>)
    @@ ("Caeptox-" :> <<"C", "a", "e", "p", "t", "o", "x", "-">>)
    @@ ("Caeptox-INT-Bia" :> <<"C", "a", "e", "p", "t", "o", "x", "-", "I", "N", "T", "-", "B", "i", "a">>)
    @@ ("Ana" :> <<"A", "n", "a">>)
    @@ ("" :> <<>>)
    @@ ("INT-Bia" :> <<"I", "N", "T", "-", "B", "i", "a">>)
    @@ ("INTAna" :> <<"I", "N", "T", "A", "n", "a">>)
    @@ ("INT" :> <<"I", "N", "T">>)
    @@ ("INTINT-Bia" :> <<"I", "N", "T", "I", "N", "T", "-", "B", "i", "a">>)
    @@ ("EXTAna" :> <<"E", "X", "T", "A", "n", "a">>)
    @@ ("EXT" :> <<"E", "X", "T">>)
    @@ ("EXTINT-Bia" :> <<"E", "X", "T", "I", "N", "T", "-", "B", "i", "a">>)
    @@ ("CAEPTOXAna" :> <<"C", "A", "E", "P", "T", "O", "X", "A", "n", "a">>)
    @@ ("CAEPTOX" :> <<"C", "A", "E", "P", "T", "O", "X">>)
    @@ ("CAEPTOXINT-Bia" :> <<"C", "A", "E", "P", "T", "O", "X", "I", "N", "T", "-", "B", "i", "a">>)
    @@ ("TMLAna" :> <<"T", "M", "L", "A", "n", "a">>)
    @@ ("TML" :> <<"T", "M", "L">>)
    @@ ("TMLINT-Bia" :> <<"T", "M", "L", "I", "N", "T", "-", "B", "i", "a">>)
    @@ ("TMLKAna" :> <<"T", "M", "L", "K", "A", "n", "a">>)
    @@ ("TMLK" :> <<"T", "M", "L", "K">>)
    @@ ("TMLKINT-Bia" :> <<"T", "M", "L", "K", "I", "N", "T", "-", "B", "i", "a">>)
    @@ (" INT-Ana " :> <<" ", "I", "N", "T", "-", "A", "n", "a", " ">>)
    @@ (" EXT-Bia" :> <<" ", "E", "X", "T", "-", "B", "i", "a">>)
    @@ ("  " :> <<" ", " ">>)
    @@ (" INT- " :> <<" ", "I", "N", "T", "-", " ">>)
    @@ ("Ana " :> <<"A", "n", "a", " ">>)
    @@ ("nan" :> <<"n", "a", "n">>)
    @@ ("EXT-Bia" :> <<"E", "X", "T", "-", "B", "i", "a">>)
    @@ ("-" :> <<"-">>)
    @@ ("TMLK -" :> <<"T", "M", "L", "K", " ", "-">>)
    @@ ("Bia" :> <<"B", "i", "a">>)
    @@ ("Sem Representante" :> <<"S", "e", "m", " ", "R", "e", "p", "r", "e", "s", "e", "n", "t", "a", "n", "t", "e">>)

Chars(s) == NameChars[s]

Str(chars) == CHOOSE s \in DOMAIN NameChars : NameChars[s] = chars

(* str.upper(), character by character *)
upper_char ==
    ("a" :> "A") @@ ("e" :> "E") @@ ("i" :> "I") @@ ("k" :> "K") @@ ("l" :> "L") @@ ("m" :> "M") @@ ("n" :> "N") @@ ("o" :> "O") @@ ("p" :> "P") @@ ("r" :> "R") @@ ("s" :> "S") @@ ("t" :> "T") @@ ("x" :> "X")

upper(chars) ==
    [i \in 1..Len(chars) |->
        IF chars[i] \in DOMAIN upper_char THEN upper_char[chars[i]] ELSE chars[i]]

startswith(chars, prefix) ==
    Len(chars) >= Len(prefix) /\ SubSeq(chars, 1, Len(prefix)) = prefix

RECURSIVE lstrip(_)
lstrip(chars) == IF chars # <<>> /\ Head(chars) = " " THEN lstrip(Tail(chars)) ELSE chars

RECURSIVE rstrip(_)
rstrip(chars) ==
    IF chars # <<>> /\ chars[Len(chars)] = " "
    THEN rstrip(SubSeq(chars, 1, Len(chars) - 1)) ELSE chars

strip(chars) == rstrip(lstrip(chars))

prefixes_to_remove ==
    <<<<"E", "X", "T", "-">>,
      <<"E", "X", "T", " ", "-">>,
      <<"I", "N", "T", "-">>,
      <<"I", "N", "T", " ", "-">>,
      <<"C", "A", "E", "P", "T", "O", "X", " ", "-", " ">>,
      <<"C", "A", "E", "P", "T", "O", "X", "-">>,
      <<"C", "A", "E", "P", "T", "O", "X", " ", "{en dash}", " ">>,
      <<"C", "A", "E", "P", "T", "O", "X", "{en dash}">>,
      <<"T", "L", "M", "K", " ", "-", " ">>,
      <<"T", "L", "M", "K">>,
      <<"T", "M", "L", "K", " ", "-", " ">>,
      <<"C", "A", "E", "P", "T", "O", "X", " ", "-">>,
      <<"C", "A", "E", "P", "T", "O", "X", " ", "{en dash}">>>>

(* the for loop from its k-th prefix on: the first prefix that matches is cut
   off, the rest is stripped, and the loop breaks *)
RECURSIVE remove_prefix(_, _)
remove_prefix(name_str, k) ==
    IF k > Len(prefixes_to_remove) THEN name_str
    ELSE IF startswith(upper(name_str), upper(prefixes_to_remove[k]))
    THEN strip(SubSeq(name_str, Len(prefixes_to_remove[k]) + 1, Len(name_str)))
    ELSE remove_prefix(name_str, k + 1)

RECURSIVE MutRemoveEveryPrefix(_, _)
MutRemoveEveryPrefix(name_str, k) ==
    IF k > Len(prefixes_to_remove) THEN name_str
    ELSE IF startswith(upper(name_str), upper(prefixes_to_remove[k]))
    THEN MutRemoveEveryPrefix(
             strip(SubSeq(name_str, Len(prefixes_to_remove[k]) + 1, Len(name_str))), k + 1)
    ELSE MutRemoveEveryPrefix(name_str, k + 1)

MutCleanEveryPrefix(name) ==
    IF name = NA THEN "Sem Representante"
    ELSE LET name_str == MutRemoveEveryPrefix(strip(Chars(name)), 1)
         IN  IF name_str = <<>> THEN name ELSE Str(name_str)

clean_representative_name(name) ==
    IF name = NA THEN "Sem Representante"
    ELSE LET name_str == remove_prefix(strip(Chars(name)), 1)
         IN  IF name_str = <<>> THEN name ELSE Str(name_str)

(* the prefixes of the chain of startswith tests, in upper case as written *)
internal_prefixes ==
    {<<"I", "N", "T", "-">>, <<"I", "N", "T", " ", "-">>,
     <<"C", "A", "E", "P", "T", "O", "X", " ", "-", " ">>,
     <<"C", "A", "E", "P", "T", "O", "X", "-">>,
     <<"C", "A", "E", "P", "T", "O", "X", " ", "{en dash}", " ">>,
     <<"C", "A", "E", "P", "T", "O", "X", "{en dash}">>,
     <<"T", "L", "M", "K", " ", "-", " ">>, <<"T", "L", "M", "K">>,
     <<"T", "M", "L", "K", " ", "-", " ">>}

MutCategorizeStripped(name) ==
    IF name = NA THEN "Externo"
    ELSE IF \E p \in internal_prefixes : startswith(upper(strip(Chars(name))), p)
    THEN "Interno" ELSE "Externo"

categorize_rep(name) ==
    IF name = NA THEN "Externo"
    ELSE IF \E p \in internal_prefixes : startswith(upper(Chars(name)), p)
    THEN "Interno" ELSE "Externo"

(* Inputs: every prefix of the list, in the case of the list and in another
   case, near misses, each followed by a name, by nothing and by a name that
   starts with a prefix itself; and names padded with spaces *)
RawNames ==
    {"EXT-Ana", "EXT-", "EXT-INT-Bia", "EXT -Ana",
     "EXT -", "EXT -INT-Bia", "INT-Ana", "INT-",
     "INT-INT-Bia", "INT -Ana", "INT -", "INT -INT-Bia",
     "CAEPTOX - Ana", "CAEPTOX - ", "CAEPTOX - INT-Bia", "CAEPTOX-Ana",
     "CAEPTOX-", "CAEPTOX-INT-Bia", "CAEPTOX {en dash} Ana", "CAEPTOX {en dash} ",
     "CAEPTOX {en dash} INT-Bia", "CAEPTOX{en dash}Ana", "CAEPTOX{en dash}", "CAEPTOX{en dash}INT-Bia",
     "TLMK - Ana", "TLMK - ", "TLMK - INT-Bia", "TLMKAna",
     "TLMK", "TLMKINT-Bia", "TMLK - Ana", "TMLK - ",
     "TMLK - INT-Bia", "CAEPTOX -Ana", "CAEPTOX -", "CAEPTOX -INT-Bia",
     "CAEPTOX {en dash}Ana", "CAEPTOX {en dash}", "CAEPTOX {en dash}INT-Bia", "int-Ana",
     "int-", "int-INT-Bia", "Ext-Ana", "Ext-",
     "Ext-INT-Bia", "tlmk - Ana", "tlmk - ", "tlmk - INT-Bia",
     "Caeptox-Ana", "Caeptox-", "Caeptox-INT-Bia", "Ana",
     "", "INT-Bia", "INTAna", "INT",
     "INTINT-Bia", "EXTAna", "EXT", "EXTINT-Bia",
     "CAEPTOXAna", "CAEPTOX", "CAEPTOXINT-Bia", "TMLAna",
     "TML", "TMLINT-Bia", "TMLKAna", "TMLK",
     "TMLKINT-Bia", " INT-Ana ", " EXT-Bia", "  ",
     " INT- ", "Ana ", "nan", "EXT-Bia"}

InitNames ==
    /\ representatives \in {<<[_id |-> 1, name |-> n]>> : n \in RawNames \cup {NA}}
    /\ labs = <<>>
    /\ gatherings = <<>>
    /\ columns = NoLocation
    /\ monthly = EmptyMonthly
    /\ gatheringBag = <<>>
    /\ result = NoResult

CleanRepresentativeName ==
    /\ result.op = "none"
    /\ result' = [op |-> "clean_representative_name", name |-> representatives[1].name,
                  out |-> clean_representative_name(representatives[1].name)]
    /\ UNCHANGED <<representatives, labs, gatherings, columns, monthly, gatheringBag>>

CategorizeRep ==
    /\ result.op = "none"
    /\ result' = [op |-> "categorize_rep", name |-> representatives[1].name,
                  out |-> categorize_rep(representatives[1].name)]
    /\ UNCHANGED <<representatives, labs, gatherings, columns, monthly, gatheringBag>>

NextNames == CleanRepresentativeName \/ CategorizeRep

SpecNames == InitNames /\ [][NextNames]_vars

(* Claims on the representative names *)

MatchingPrefixes(chars) ==
    {k \in 1..Len(prefixes_to_remove) : startswith(upper(chars), upper(prefixes_to_remove[k]))}

CutAt(chars, k) == strip(SubSeq(chars, Len(prefixes_to_remove[k]) + 1, Len(chars)))

(* C18: clean_representative_name cuts off at most one prefix, the first entry
   of the list that the trimmed name starts with, case-insensitively, and trims
   what is left; with no matching entry it returns the trimmed name; when
   nothing is left it returns the raw value unchanged. *)
C18_CleanRemovesFirstMatchingPrefix ==
    (result.op = "clean_representative_name" /\ result.name # NA) =>
        LET trimmed == strip(Chars(result.name))
            matching == MatchingPrefixes(trimmed)
            rest == IF matching = {} THEN trimmed ELSE CutAt(trimmed, SetMin(matching))
        IN  IF rest = <<>> THEN result.out = result.name ELSE Chars(result.out) = rest

(* a name with two prefixes in a row, the second being later in the list: only
   the first is cut off *)
C18_Witness ==
    /\ result.op = "clean_representative_name"
    /\ result.name = "EXT-INT-Bia"
    /\ result.out = "INT-Bia"

(* C19: categorize_rep returns "Interno" exactly when the upper-cased raw name
   starts with one of the nine prefixes, and "Externo" for every other name, a
   missing one and every name starting with EXT- included. *)
C19_CategorizeByRawPrefix ==
    result.op = "categorize_rep" =>
        /\ result.out \in {"Interno", "Externo"}
        /\ result.out = "Interno" <=>
              /\ result.name # NA
              /\ \E p \in internal_prefixes :
                    startswith(upper(Chars(result.name)), p)
        /\ (result.name # NA /\ startswith(upper(Chars(result.name)), <<"E", "X", "T", "-">>))
              => result.out = "Externo"

(* a name that starts with a space before an internal prefix is external *)
C19_Witness ==
    /\ result.op = "categorize_rep"
    /\ result.name = " INT-Ana "
    /\ result.out = "Externo"

----------------------------------------------------------------------------
(* Entity enrichment: enrich_labs_with_reps, src/data_loader.py, and load_data,
   src/app.py *)

(* df_reps with Categoria and name_clean added *)
reps_enriched(df_reps) ==
    [i \in 1..Len(df_reps) |->
        WithColumn(WithColumn(df_reps[i], "Categoria", categorize_rep(df_reps[i].name)),
                   "name_clean", clean_representative_name(df_reps[i].name))]

(* df_labs left-joined, on _representative, with the representatives indexed
   by _id, which gives the laboratory the columns name_rep, Categoria and
   name_rep_clean, null where no representative matches *)
labs_joined(df_labs, enriched) ==
    [i \in 1..Len(df_labs) |->
        LET lab == df_labs[i]
            found == {j \in 1..Len(enriched) : enriched[j]._id = lab._representative}
            rep == enriched[CHOOSE j \in found : TRUE]
            added == IF found = {}
                     THEN [name_rep |-> NA, Categoria |-> NA, name_rep_clean |-> NA]
                     ELSE [name_rep |-> rep.name, Categoria |-> rep.Categoria,
                           name_rep_clean |-> rep.name_clean]
        IN  [c \in DOMAIN lab \cup DOMAIN added |->
                IF c \in DOMAIN added THEN added[c] ELSE lab[c]]]

enrich_labs_with_reps(df_reps, df_labs) ==
    [df_reps |-> reps_enriched(df_reps),
     df_labs |-> labs_joined(df_labs, reps_enriched(df_reps))]

(* load_data after load_csvs: the enrichment, then the merge on the enriched
   laboratories *)
data_merged(e, df_gath) ==
    [df_reps |-> e.df_reps, df_labs |-> e.df_labs,
     df_gath |-> merge_gatherings_with_labs(df_gath, e.df_labs)]

load_data(df_reps, df_labs, df_gath) ==
    data_merged(enrich_labs_with_reps(df_reps, df_labs), df_gath)

(* Inputs: representatives 1..n, a name being null for some; laboratories
   whose reference is null, a representative of the table, or one it lacks *)
RepNames == {"INT-Ana", "EXT-Bia", NA}

RepTables ==
    UNION {{[i \in 1..n |-> [_id |-> i, name |-> f[i]]] : f \in [1..n -> RepNames]} :
               n \in 0..MaxReps}

RepRefs == {NaN} \cup (1..MaxReps)

RawLabTables ==
    UNION {{[i \in 1..n |->
                [_id |-> i, active |-> TRUE, approved |-> TRUE, exclusionDate |-> NaT,
                 createdAt |-> 2000 - 800,
                 _representative |-> f[i]]] : f \in [1..n -> RepRefs]} : n \in 1..MaxLabs}

RawGatheringTables ==
    SeqsUpTo([_laboratory : LabRefs, createdAt : {2000 - 20}], MaxGatherings)

InitEnrich ==
    /\ representatives \in RepTables
    /\ labs \in RawLabTables
    /\ gatherings \in RawGatheringTables
    /\ columns = NoLocation
    /\ monthly = EmptyMonthly
    /\ gatheringBag = <<>>
    /\ result = NoResult

EnrichLabsWithReps ==
    /\ result.op = "none"
    /\ LET e == enrich_labs_with_reps(representatives, labs)
       IN  result' = [op |-> "enrich_labs_with_reps", df_reps |-> e.df_reps,
                      df_labs |-> e.df_labs]
    /\ UNCHANGED <<representatives, labs, gatherings, columns, monthly, gatheringBag>>

LoadData ==
    /\ result.op = "none"
    /\ LET d == load_data(representatives, labs, gatherings)
       IN  result' = [op |-> "load_data", df_labs |-> d.df_labs, df_gath |-> d.df_gath]
    /\ UNCHANGED <<representatives, labs, gatherings, columns, monthly, gatheringBag>>

NextEnrich == EnrichLabsWithReps \/ LoadData

SpecEnrich == InitEnrich /\ [][NextEnrich]_vars

(* Claims on the entity enrichment *)

HasRepresentative(lab) ==
    \E j \in 1..Len(representatives) : representatives[j]._id = lab._representative

(* C16: in the laboratory table of enrich_labs_with_reps every input laboratory
   is present, no row has a null name_rep, name_rep_clean or Categoria, and a
   laboratory whose representative reference is null or matches no
   representative has "Sem Representante" as name_rep and name_rep_clean and
   the category "Externo". *)
C16_EnrichedLabsHavePlaceholders ==
    result.op = "enrich_labs_with_reps" =>
        /\ Len(result.df_labs) = Len(labs)
        /\ \A i \in 1..Len(result.df_labs) :
              /\ result.df_labs[i]._id = labs[i]._id
              /\ result.df_labs[i].name_rep # NA
              /\ result.df_labs[i].name_rep_clean # NA
              /\ result.df_labs[i].Categoria # NA
              /\ ~HasRepresentative(labs[i]) =>
                    /\ result.df_labs[i].name_rep = "Sem Representante"
                    /\ result.df_labs[i].name_rep_clean = "Sem Representante"
                    /\ result.df_labs[i].Categoria = "Externo"

LabOf(g) == {j \in 1..Len(labs) : labs[j]._id = g._laboratory}

(* C17: merge_gatherings_with_labs, laboratory identifiers being unique,
   returns one row per input gathering, in order, a gathering of an unknown
   laboratory included; name_rep, name_rep_clean and Categoria are never null,
   and they are "Sem Representante", "Sem Representante" and "Externo" when
   the laboratory or its representative is missing. *)
C17_MergeKeepsEveryGathering ==
    result.op = "load_data" =>
        /\ Len(result.df_gath) = Len(gatherings)
        /\ \A i \in 1..Len(gatherings) :
              LET row == result.df_gath[i]
              IN  /\ row._laboratory = gatherings[i]._laboratory
                  /\ row.createdAt = gatherings[i].createdAt
                  /\ row.name_rep # NA /\ row.name_rep_clean # NA /\ row.Categoria # NA
                  /\ (\A j \in LabOf(gatherings[i]) : ~HasRepresentative(labs[j])) =>
                        /\ row.name_rep = "Sem Representante"
                        /\ row.name_rep_clean = "Sem Representante"
                        /\ row.Categoria = "Externo"

(* a gathering of a laboratory no table holds is kept with the placeholders,
   next to a gathering of a laboratory that has an internal representative *)
C17_Witness ==
    /\ result.op = "load_data"
    /\ \E i, k \in 1..Len(result.df_gath) :
          /\ LabOf(gatherings[i]) = {}
          /\ result.df_gath[i].name_rep_clean = "Sem Representante"
          /\ result.df_gath[k].name_rep = "INT-Ana"
          /\ result.df_gath[k].name_rep_clean = "Ana"
          /\ result.df_gath[k].Categoria = "Interno"

----------------------------------------------------------------------------
(* Loading: load_csvs, src/data_loader.py.  The three tables are read from the
   first source that can be read: the configured directory, SharePoint, an
   alternative local directory.  Every branch that reads returns the tables
   as read; with no readable source the function raises, and the statements
   written after that raise (date conversion, identifier normalisation, the
   exclusion of EXCLUDED_LAB_ID, the default flag columns) are never run. *)

EXCLUDED_LAB_ID == "5aa61aeeef23e80010b1224e"

Sources == <<"DATA_DIR", "SharePoint", "alternative">>

load_csvs(readable, df_reps, df_labs, df_gatherings) ==
    IF \E k \in 1..Len(Sources) : Sources[k] \in readable
    THEN LET first == SetMin({k \in 1..Len(Sources) : Sources[k] \in readable})
         IN  [raised |-> "none", source |-> Sources[first], df_reps |-> df_reps,
              df_labs |-> df_labs, df_gatherings |-> df_gatherings]
    ELSE [raised |-> "FileNotFoundError", source |-> "none", df_reps |-> <<>>,
          df_labs |-> <<>>, df_gatherings |-> <<>>]

(* Inputs: laboratories.csv with distinct identifiers, the blind-sample
   laboratory among them or not *)
CsvLabIds == <<EXCLUDED_LAB_ID, "5aa61aeeef23e80010b12250", "5aa61aeeef23e80010b12251",
               "5aa61aeeef23e80010b12252">>

CsvLabTables ==
    UNION {{[i \in 1..n |-> [_id |-> CsvLabIds[ids[i]], active |-> f[i]]] :
               ids \in {q \in [1..n -> 1..(MaxLabs + 1)] :
                           \A a, b \in 1..n : a # b => q[a] # q[b]},
               f \in [1..n -> BOOLEAN]} : n \in 1..MaxLabs}

InitLoad ==
    /\ labs \in CsvLabTables
    /\ representatives = <<>>
    /\ gatherings = <<>>
    /\ columns = NoLocation
    /\ monthly = EmptyMonthly
    /\ gatheringBag = <<>>
    /\ result = NoResult

LoadCsvs ==
    /\ result.op = "none"
    /\ \E readable \in SUBSET {Sources[k] : k \in 1..Len(Sources)} :
         LET out == load_csvs(readable, representatives, labs, gatherings)
         IN  result' = [op |-> "load_csvs", raised |-> out.raised, source |-> out.source,
                        df_labs |-> out.df_labs]
    /\ UNCHANGED <<representatives, labs, gatherings, columns, monthly, gatheringBag>>

NextLoad == LoadCsvs

SpecLoad == InitLoad /\ [][NextLoad]_vars

(* C20: whichever source the tables come from, the laboratory table load_csvs
   returns holds no laboratory whose identifier is EXCLUDED_LAB_ID. *)
C20_ExcludedLabNeverLoaded ==
    (result.op = "load_csvs" /\ result.raised = "none") =>
        \A i \in 1..Len(result.df_labs) : result.df_labs[i]._id # EXCLUDED_LAB_ID

----------------------------------------------------------------------------
(* Gathering flags: load_csvs, load_data and filter_active_gatherings as main
   chains them.  Here columns.gatherings names the flag columns gatherings.csv
   carries. *)

FlagColumns == {"active", "test", "disabledInReport"}

(* main up to df_gatherings_active, for the toggles given: the tables of
   load_csvs, enriched and merged by load_data, then filtered *)
active_gatherings(readable, df_reps, df_labs, df_gatherings, exclude_test, exclude_disabled) ==
    LET csvs == load_csvs(readable, df_reps, df_labs, df_gatherings)
        data == load_data(csvs.df_reps, csvs.df_labs, csvs.df_gatherings)
    IN  IF csvs.raised # "none" THEN [raised |-> csvs.raised, df |-> <<>>]
        ELSE IF \E i \in 1..Len(data.df_gath) : "active" \notin DOMAIN data.df_gath[i]
        THEN [raised |-> "KeyError", df |-> <<>>]
        ELSE [raised |-> "none",
              df |-> filter_active_gatherings(data.df_gath, exclude_test, exclude_disabled)]

(* Inputs: laboratories without representative, active or not; gatherings
   1..n of laboratory 1 or of laboratory 9, which no table holds, with True,
   False or a null in each flag column the file carries *)
FlagLabTables ==
    UNION {{[i \in 1..n |->
                [_id |-> i, active |-> f[i], approved |-> TRUE, exclusionDate |-> NaT,
                 createdAt |-> 2000 - 800,
                 _representative |-> NaN]] : f \in [1..n -> BOOLEAN]} : n \in 1..MaxLabs}

FlagCells == {"True", "False", "null"}

FlagCell(cell) == IF cell = "null" THEN null_flag ELSE cell = "True"

FlagGatheringRow(i, lab, cells, cols) ==
    [c \in {"_id", "_laboratory", "createdAt", "nulls"} \cup cols |->
        CASE c = "_id" -> i
          [] c = "_laboratory" -> lab
          [] c = "createdAt" -> 2000 - 20
          [] c = "nulls" -> {k \in cols : cells[k] = "null"}
          [] OTHER -> FlagCell(cells[c])]

FlagGatheringTables(cols) ==
    UNION {{[i \in 1..n |-> FlagGatheringRow(i, f[i][1], f[i][2], cols)] :
               f \in [1..n -> {1, 9} \X [cols -> FlagCells]]} : n \in 0..MaxGatherings}

InitFlags ==
    /\ representatives = <<>>
    /\ labs \in FlagLabTables
    /\ \E cols \in SUBSET FlagColumns :
          /\ columns = [labs |-> {}, gatherings |-> cols]
          /\ gatherings \in FlagGatheringTables(cols)
    /\ monthly = EmptyMonthly
    /\ gatheringBag = <<>>
    /\ result = NoResult

ActiveGatherings ==
    /\ result.op = "none"
    /\ \E readable \in SUBSET {Sources[k] : k \in 1..Len(Sources)}, t, d \in BOOLEAN :
         LET out == active_gatherings(readable, representatives, labs, gatherings, t, d)
         IN  result' = [op |-> "active_gatherings", exclude_test |-> t,
                        exclude_disabled |-> d, raised |-> out.raised, df |-> out.df]
    /\ UNCHANGED <<representatives, labs, gatherings, columns, monthly, gatheringBag>>

(* filter_active_gatherings on the table as read, alone and composed with
   itself: with the toggles given, once and twice; with one toggle, then the
   other, in both orders, and with both at once *)
FilterActiveGatherings ==
    /\ result.op = "none"
    /\ "active" \in columns.gatherings
    /\ \E t, d \in BOOLEAN :
         LET once == filter_active_gatherings(gatherings, t, d)
             test_only == filter_active_gatherings(gatherings, TRUE, FALSE)
             disabled_only == filter_active_gatherings(gatherings, FALSE, TRUE)
         IN  result' = [op |-> "filter_active_gatherings", exclude_test |-> t,
                        exclude_disabled |-> d, once |-> once,
                        twice |-> filter_active_gatherings(once, t, d),
                        none |-> filter_active_gatherings(gatherings, FALSE, FALSE),
                        test_only |-> test_only, disabled_only |-> disabled_only,
                        test_then_disabled |->
                            filter_active_gatherings(test_only, FALSE, TRUE),
                        disabled_then_test |->
                            filter_active_gatherings(disabled_only, TRUE, FALSE),
                        both |-> filter_active_gatherings(gatherings, TRUE, TRUE)]
    /\ UNCHANGED <<representatives, labs, gatherings, columns, monthly, gatheringBag>>

NextFlags == ActiveGatherings \/ FilterActiveGatherings

SpecFlags == InitFlags /\ [][NextFlags]_vars

(* a flag of a gathering compares equal to v, the default standing for a
   column the file lacks *)
FlagIs(g, flag, v, default) == IF flag \in DOMAIN g THEN cell_is(g, flag, v) ELSE default = v

(* C21: when gatherings.csv lacks a flag column, every gathering counts as
   active = true, test = false, disabledInReport = false: with the tables
   read, the pipeline raises nothing and keeps exactly the gatherings that
   those defaults and the file's own flags let through, whatever the active
   flag of the gathering's laboratory is. *)
C21_MissingFlagColumnsTakeDefaults ==
    (result.op = "active_gatherings" /\ result.raised # "FileNotFoundError") =>
        /\ result.raised = "none"
        /\ {result.df[k]._id : k \in 1..Len(result.df)} =
              {i \in 1..Len(gatherings) :
                  /\ FlagIs(gatherings[i], "active", TRUE, TRUE)
                  /\ result.exclude_test => FlagIs(gatherings[i], "test", FALSE, FALSE)
                  /\ result.exclude_disabled =>
                        FlagIs(gatherings[i], "disabledInReport", FALSE, FALSE)}

IdsOf(rows) == {rows[k]._id : k \in 1..Len(rows)}

(* C23: filter_active_gatherings is idempotent and its two exclusions
   commute: twice with the same toggles is once; exclude_test then
   exclude_disabled, the opposite order and both at once give the same rows;
   every returned row has active = true; and a toggle removes only rows whose
   own flag is true. *)
C23_FilterIdempotentCommutes ==
    result.op = "filter_active_gatherings" =>
        /\ result.twice = result.once
        /\ result.test_then_disabled = result.disabled_then_test
        /\ result.test_then_disabled = result.both
        /\ \A k \in 1..Len(result.once) : cell_is(result.once[k], "active", TRUE)
        /\ \A k \in 1..Len(result.none) :
              LET g == result.none[k]
              IN  /\ g._id \notin IdsOf(result.test_only) => cell_is(g, "test", TRUE)
                  /\ g._id \notin IdsOf(result.disabled_only) =>
                        cell_is(g, "disabledInReport", TRUE)

----------------------------------------------------------------------------
(* Volume aggregator: aggregate_volumes, src/analytics.py.  Periods are
   blocks of days counted from the origin of the instants: a month is 30
   days, a week 7 days, so that a week may lie across two months. *)

DaysPerMonth == 30
DaysPerWeek == 7

(* Series.dt.to_period: the period an instant falls in *)
to_period(createdAt, days) == createdAt \div (days * HalfDaysPerDay)

(* g.groupby([column, "Categoria"]).size().reset_index(name="Volume"): one row
   per pair present, in key order; groupby leaves out a row with a null key *)
period_volumes(g, column, days) ==
    LET keyed == SelectSeq(g, LAMBDA r : CatKey(r) # 0)
        key(r) == to_period(r.createdAt, days) * (Len(CatKeyOrder) + 1) + CatKey(r)
        keys == SortedSeqOf({key(keyed[i]) : i \in 1..Len(keyed)})
    IN  [n \in 1..Len(keys) |->
            LET any == keyed[CHOOSE i \in 1..Len(keyed) : key(keyed[i]) = keys[n]]
                size == Cardinality({i \in 1..Len(keyed) : key(keyed[i]) = keys[n]})
            IN  [c \in {column, "Categoria", "Volume"} |->
                    IF c = column THEN to_period(any.createdAt, days)
                    ELSE IF c = "Categoria" THEN any.Categoria ELSE size]]

(* the aggregation without the dropna: a NaT falls in a period of its own *)
MutVolumesKeepNaT(df) ==
    [weekly |-> [columns |-> {"week", "Categoria", "Volume"},
                 rows |-> period_volumes(df, "week", DaysPerWeek)],
     monthly |-> [columns |-> {"month", "Categoria", "Volume"},
                  rows |-> period_volumes(df, "month", DaysPerMonth)]]

(* to_datetime(errors="coerce") and dropna(subset=["createdAt"]), then the
   weekly and the monthly table *)
aggregate_volumes(df) ==
    LET g == dropna_createdAt(df)
    IN  [weekly |-> [columns |-> {"week", "Categoria", "Volume"},
                     rows |-> period_volumes(g, "week", DaysPerWeek)],
         monthly |-> [columns |-> {"month", "Categoria", "Volume"},
                      rows |-> period_volumes(g, "month", DaysPerMonth)]]

(* Inputs: laboratories 1..n, active, laboratory 1 with any of the
   representative columns enrich_labs_with_reps leaves, the others of "R2";
   gatherings of laboratory 1 or of laboratory 9,
   which no table holds, created at an instant that cannot be parsed, in one
   week, in the next week of the same month, on the last half day of that
   month or on the first of the next month, which is in the same week *)
VolumeLabTables ==
    UNION {{[i \in 1..n |->
                [_id |-> i, active |-> TRUE, approved |-> TRUE, exclusionDate |-> NaT,
                 createdAt |-> 2000 - 800,
                 name_rep |-> f[i][1], name_rep_clean |-> f[i][1], Categoria |-> f[i][2]]] :
               f \in {h \in [1..n -> LabRepKeys] : \A i \in 2..n : h[i] = <<"R2", "Externo">>}} :
               n \in 1..MaxLabs}

VolumeCreatedAt == {NaT, 1999, 2002, 2039, 2040}

VolumeGatheringTables ==
    SeqsUpTo([_laboratory : {1, 9}, createdAt : VolumeCreatedAt], MaxGatherings + 1)

InitVolumes ==
    /\ representatives = <<>>
    /\ labs \in VolumeLabTables
    /\ gatherings \in VolumeGatheringTables
    /\ columns = NoLocation
    /\ monthly = EmptyMonthly
    /\ gatheringBag = <<>>
    /\ result = NoResult

(* main: aggregate_volumes on load_data's merged gatherings, then compute_kpis
   on the monthly table *)
AggregateVolumes ==
    /\ result.op = "none"
    /\ LET out == aggregate_volumes(merge_gatherings_with_labs(gatherings, labs))
       IN  result' = [op |-> "aggregate_volumes", weekly |-> out.weekly,
                      monthly |-> out.monthly, kpis |-> compute_kpis(out.monthly)]
    /\ UNCHANGED <<representatives, labs, gatherings, columns, monthly, gatheringBag>>

NextVolumes == AggregateVolumes

SpecVolumes == InitVolumes /\ [][NextVolumes]_vars

VolumeSum(rows) == SeqSum([k \in 1..Len(rows) |-> rows[k].Volume])

ValidGatherings == {i \in 1..Len(gatherings) : gatherings[i].createdAt # NaT}

(* the rows of a period table a gathering is counted in: those of its period
   and of the category the merge gave it *)
RowsCounting(rows, column, days, i) ==
    {k \in 1..Len(rows) :
        /\ rows[k][column] = to_period(gatherings[i].createdAt, days)
        /\ rows[k].Categoria = merge_gatherings_with_labs(gatherings, labs)[i].Categoria}

(* C25: aggregate_volumes leaves out the gatherings whose createdAt cannot be
   parsed and counts every other gathering once: the Volume of the monthly
   table and of the weekly table both sum to the number of gatherings with a
   valid createdAt, which is compute_kpis(monthly).total, and a gathering is
   in the row of one month and of one week only. *)
C25_AggregateVolumesConservesEvents ==
    result.op = "aggregate_volumes" =>
        /\ VolumeSum(result.monthly.rows) = Cardinality(ValidGatherings)
        /\ VolumeSum(result.weekly.rows) = Cardinality(ValidGatherings)
        /\ result.kpis.total = Cardinality(ValidGatherings)
        /\ \A i \in ValidGatherings :
              /\ Cardinality(RowsCounting(result.monthly.rows, "month", DaysPerMonth, i)) = 1
              /\ Cardinality(RowsCounting(result.weekly.rows, "week", DaysPerWeek, i)) = 1
        /\ \A k \in 1..Len(result.monthly.rows) : result.monthly.rows[k].Volume > 0
        /\ \A k \in 1..Len(result.weekly.rows) : result.weekly.rows[k].Volume > 0

(* three gatherings, one that cannot be parsed and two of the same week on
   either side of a month's end: two monthly rows, one weekly row, total 2 *)
C25_Witness ==
    /\ result.op = "aggregate_volumes"
    /\ Len(gatherings) = 3
    /\ Cardinality(ValidGatherings) = 2
    /\ Len(result.monthly.rows) = 2
    /\ Len(result.weekly.rows) = 1
    /\ result.weekly.rows[1].Volume = 2
    /\ result.kpis.total = 2

----------------------------------------------------------------------------
(* Tables as objects.  A call has the table its caller passed (arg) and the
   table it assigns columns to (local); shared tells whether the two are one
   object, in which case an assignment shows in the caller's table. *)

(* what a pandas operation returns (boolean indexing, sort_values, merge,
   join, dropna): a new table *)
new_table(df, table) == [arg |-> df, local |-> table, shared |-> FALSE]

(* the name bound to the caller's table, without a copy *)
MutCopyIsAlias(df) == [arg |-> df, local |-> df, shared |-> TRUE]

(* df.copy() *)
copy(df) == [arg |-> df, local |-> df, shared |-> FALSE]

(* local[column] = ..., after which the local table is table *)
assign(object, table) ==
    [arg |-> IF object.shared THEN table ELSE object.arg, local |-> table,
     shared |-> object.shared]

(* The calls of one pass of main, each on the tables main passes it.  A call
   records the tables it received and those tables as it leaves them; a
   sequence of calls is a sequence of such steps on the same tables. *)

(* main's tables: load_data's, the active gatherings, the laboratories with
   is_credenciado, the monthly volumes.  An action takes each of them from a
   one-element set, which names its value once. *)
pass_data == load_data(representatives, labs, gatherings)

pass_active(data) == filter_active_gatherings(data.df_gath, FALSE, TRUE)

pass_status(data, current_date) == compute_credenciamento(data.df_labs, current_date)

pass_monthly(active) == aggregate_volumes(active).monthly

(* the gathering table as the bag detect_lab_drops is modelled on *)
bag_of(df) ==
    [i \in 1..Len(df) |->
        [_laboratory |-> df[i]._laboratory, name_rep |-> df[i].name_rep,
         month |-> to_period(df[i].createdAt, DaysPerMonth), count |-> 1]]

(* Inputs: no representative or one; laboratories 1..n, laboratory 1 with any
   reference; gatherings of laboratory 1 or 9, active or not *)
FrameRepTables == {t \in RepTables : Len(t) <= 1}

FrameLabTables == {t \in RawLabTables : \A i \in 2..Len(t) : t[i]._representative = NaN}

FrameGatheringTables ==
    UNION {{[i \in 1..n |->
                FlagGatheringRow(i, f[i][1],
                    [c \in FlagColumns |-> IF c = "active" THEN f[i][2] ELSE "False"],
                    FlagColumns)] :
               f \in [1..n -> {1, 9} \X {"True", "False"}]} : n \in 0..MaxGatherings}

InitFrame ==
    /\ representatives \in FrameRepTables
    /\ labs \in FrameLabTables
    /\ gatherings \in FrameGatheringTables
    /\ columns = [labs |-> {}, gatherings |-> FlagColumns]
    /\ monthly = EmptyMonthly
    /\ gatheringBag = <<>>
    /\ result = NoResult

Called(op, received, left, out) ==
    /\ result' = [op |-> op, received |-> received, left |-> left, out |-> out]
    /\ UNCHANGED <<representatives, labs, gatherings, columns, monthly, gatheringBag>>

(* both tables copied; Categoria and name_clean assigned to the copy of df_reps,
   the laboratories joined into a new table *)
CallEnrichLabsWithReps ==
    /\ result.op = "none"
    /\ \E e \in {enrich_labs_with_reps(representatives, labs)} :
           LET reps_object == assign(copy(representatives), e.df_reps)
               labs_object == new_table(copy(labs).arg, e.df_labs)
           IN  Called("enrich_labs_with_reps", <<representatives, labs>>,
                      <<reps_object.arg, labs_object.arg>>, <<e.df_reps, e.df_labs>>)

(* the merge returns a new table, to which the placeholders are assigned *)
CallMergeGatheringsWithLabs ==
    /\ result.op = "none"
    /\ \E data \in {pass_data} :
           LET df_labs == data.df_labs
               merged == assign(new_table(gatherings, left_merge(gatherings, df_labs)),
                                merge_gatherings_with_labs(gatherings, df_labs))
           IN  Called("merge_gatherings_with_labs", <<gatherings, df_labs>>,
                      <<merged.arg, df_labs>>, merged.local)

(* boolean indexing only *)
CallFilterActiveGatherings ==
    /\ result.op = "none"
    /\ \E t, d \in BOOLEAN, data \in {pass_data} :
           LET df == data.df_gath
               out == new_table(df, filter_active_gatherings(df, t, d))
           IN  Called("filter_active_gatherings", <<df>>, <<out.arg>>, out.local)

(* labs = df_labs.copy(); labs["is_credenciado"] = ... *)
CallComputeCredenciamento ==
    /\ result.op = "none"
    /\ \E now \in SegmentInstants, data \in {pass_data} :
           LET df_labs == data.df_labs
               labs_object == assign(copy(df_labs), compute_credenciamento(df_labs, now))
           IN  Called("compute_credenciamento", <<df_labs>>, <<labs_object.arg>>,
                      labs_object.local)

(* labs = df_labs_cred.copy(), the five status columns assigned to it, and,
   with gatherings, df_gatherings_clean = df_gatherings_active.copy(), its
   createdAt assigned *)
CallComputeColetaStatus ==
    /\ result.op = "none"
    /\ \E now \in SegmentInstants, data \in {pass_data} :
         \E active \in {pass_active(data)},
            cred \in {SelectSeq(pass_status(data, now), LAMBDA l : l.is_credenciado)} :
           LET status == compute_coleta_status(cred, active, now, DEFAULT_ACTIVITY_WINDOW_DAYS)
               labs_object ==
                   assign(copy(cred), [i \in 1..Len(cred) |->
                                          StatusRow(cred[i], FALSE, NeverCollected, NaT)])
               clean_object == IF active = <<>> THEN new_table(active, active)
                               ELSE assign(copy(active), active)
           IN  Called("compute_coleta_status", <<cred, active>>,
                      <<labs_object.arg, clean_object.arg>>, status.labs)

(* g = df_gatherings_active.copy(), its createdAt assigned; month and week are
   assigned to the table dropna returned *)
CallAggregateVolumes ==
    /\ result.op = "none"
    /\ \E data \in {pass_data} :
         \E active \in {pass_active(data)} :
           LET g == assign(copy(active), active)
           IN  Called("aggregate_volumes", <<active>>, <<g.arg>>, aggregate_volumes(active))

(* df = monthly.copy(), nothing assigned *)
CallComputeKpis ==
    /\ result.op = "none"
    /\ \E data \in {pass_data} :
         \E table \in {pass_monthly(pass_active(data))} :
           LET df == copy(table)
           IN  Called("compute_kpis", <<table>>, <<df.arg>>, compute_kpis(table))

(* the three columns are assigned to the table sort_values returned *)
CallComputeMonthlyVariations ==
    /\ result.op = "none"
    /\ \E data \in {pass_data} :
         \E table \in {pass_monthly(pass_active(data))} :
           \/ /\ table.rows = <<>>
              /\ Called("compute_monthly_variations", <<table>>, <<table>>, <<>>)
           \/ /\ table.rows # <<>>
              /\ \E order \in month_sort_orders(table.rows) :
                   LET sorted == [i \in 1..Len(order) |-> table.rows[order[i]]]
                       monthly_sorted == assign(new_table(table.rows, sorted),
                                                monthly_variation_rows(sorted))
                   IN  Called("compute_monthly_variations", <<table>>,
                              <<[columns |-> table.columns, rows |-> monthly_sorted.arg]>>,
                              monthly_sorted.local)

(* month is assigned to rep_gatherings.copy(), the rest is new tables *)
CallDetectLabDrops ==
    /\ result.op = "none"
    /\ \E rep_name \in RepNames \ {NA}, data \in {pass_data} :
         \E active \in {pass_active(data)} :
           LET rep_gatherings_copy == assign(copy(new_table(active, active).arg), active)
           IN  Called("detect_lab_drops", <<active>>, <<rep_gatherings_copy.arg>>,
                      detect_lab_drops(bag_of(active), rep_name, NoTarget).drops)

(* build_rankings and the metric functions assign to tables of their own *)
CallBuildRankings ==
    /\ result.op = "none"
    /\ \E now \in SegmentInstants, data \in {pass_data} :
         \E active \in {pass_active(data)},
            cred \in {SelectSeq(pass_status(data, now), LAMBDA l : l.is_credenciado)} :
           \E status \in {compute_coleta_status(cred, active, now,
                                                DEFAULT_ACTIVITY_WINDOW_DAYS)} :
             \E valid \in {gatherings_valid(active, status.labs)} :
               \E sorted \in sort_desc(ranking_labs_counts(valid), "Volume") :
                  LET ranking_labs ==
                          ranking_labs_enriched(sorted, status.labs, status.last_collection,
                                                now, DEFAULT_ACTIVITY_WINDOW_DAYS)
                  IN  Called("build_rankings", <<active, status.labs>>,
                             <<new_table(active, valid).arg,
                               new_table(status.labs, ranking_labs).arg>>, ranking_labs)

CallComputeMetrics ==
    /\ result.op = "none"
    /\ \E now \in SegmentInstants, data \in {pass_data} :
         \E active \in {pass_active(data)}, status \in {pass_status(data, now)} :
           \E rep_metrics \in {compute_representative_metrics(active, status)},
              summary \in {compute_category_summary(active, status)} :
               Called("compute_representative_metrics", <<active, status>>,
                      <<new_table(active, rep_metrics).arg, new_table(status, summary).arg>>,
                      <<rep_metrics, summary>>)

NextFrame ==
    \/ CallEnrichLabsWithReps
    \/ CallMergeGatheringsWithLabs
    \/ CallFilterActiveGatherings
    \/ CallComputeCredenciamento
    \/ CallComputeColetaStatus
    \/ CallAggregateVolumes
    \/ CallComputeKpis
    \/ CallComputeMonthlyVariations
    \/ CallDetectLabDrops
    \/ CallBuildRankings
    \/ CallComputeMetrics

SpecFrame == InitFrame /\ [][NextFrame]_vars

(* C24: no transformation changes a table it receives: after a call of any
   of the functions, every table passed has the rows, columns and values it
   had before the call. *)
C24_InputsNotMutated ==
    result.op # "none" => result.left = result.received

(* compute_credenciamento returns laboratories with is_credenciado while the
   table it was given has no such column *)
C24_Witness ==
    /\ result.op = "compute_credenciamento"
    /\ Len(result.out) = MaxLabs
    /\ \A i \in 1..Len(result.out) :
          /\ result.out[i].is_credenciado
          /\ "is_credenciado" \notin DOMAIN result.received[1][i]
          /\ result.left[1][i] = result.received[1][i]

----------------------------------------------------------------------------
(* Claims on empty inputs *)

(* C22: an aggregation function given an empty table returns an empty result
   with the full set of columns or keys of its non-empty result, here for
   compute_monthly_variations, detect_lab_drops and compute_kpis. *)
C22_EmptyInputGivesFullSchema ==
    /\ (result.op = "compute_monthly_variations" /\ monthly.rows = <<>>) =>
          /\ result.rows = <<>>
          /\ result.columns = monthly.columns \cup variation_columns
    /\ (result.op = "detect_lab_drops" /\ gatheringBag = <<>>) =>
          /\ result.rows = <<>>
          /\ result.columns = drops_columns
    /\ (result.op = "compute_kpis" /\ monthly.rows = <<>>) =>
          /\ DOMAIN result.kpis = {"total", "max", "min", "avg"}
          /\ result.kpis = ZeroKpis

(***************************************************************************)
(* Laboratories with the minimal columns: compute_coleta_status and        *)
(* compute_inactive_labs_alert on a laboratory table with and without a    *)
(* createdAt column of its own.                                            *)
(***************************************************************************)

(* the required columns of laboratories.csv and the columns
   enrich_labs_with_reps adds *)
MinimalLabRow(i, a) ==
    [_id |-> i, active |-> a, fantasyName |-> "Laboratorio", cnpj |-> i,
     _representative |-> 1, name_rep |-> "INT-R1", name_rep_clean |-> "R1",
     Categoria |-> "Interno"]

with_createdAt(lab) ==
    [c \in DOMAIN lab \cup {"createdAt"} |-> IF c = "createdAt" THEN 2000 - 800 ELSE lab[c]]

(* laboratory 1 is accredited, so that the table of the accredited
   laboratories has a row to carry its columns *)
MinimalLabTables ==
    UNION {{[i \in 1..n |-> MinimalLabRow(i, f[i])] :
               f \in {g \in [1..n -> BOOLEAN] : g[1]}} : n \in 1..MaxLabs}

InitMinimal ==
    /\ \E df \in MinimalLabTables :
          labs \in {df, [i \in 1..Len(df) |-> with_createdAt(df[i])]}
    /\ gatherings \in AlertGatheringTables
    /\ representatives = <<>>
    /\ columns = NoLocation
    /\ monthly = EmptyMonthly
    /\ gatheringBag = <<>>
    /\ result = NoResult

(* main: compute_credenciamento, the accredited laboratories, then the status
   over the active gatherings *)
ColetaStatusOfLabs ==
    /\ result.op = "none"
    /\ \E now \in SegmentInstants :
         LET labs_status == compute_credenciamento(labs, now)
             out == compute_coleta_status(
                        SelectSeq(labs_status, LAMBDA l : l.is_credenciado),
                        filter_active_gatherings(gatherings, FALSE, TRUE), now,
                        DEFAULT_ACTIVITY_WINDOW_DAYS)
         IN  result' = [op |-> "compute_coleta_status", current_date |-> now,
                        raised |-> out.raised, ids |-> IdsOf(out.labs)]
    /\ UNCHANGED <<representatives, labs, gatherings, columns, monthly, gatheringBag>>

InactiveLabsAlertOfLabs ==
    /\ result.op = "none"
    /\ \E now \in SegmentInstants :
         LET out == compute_inactive_labs_alert(compute_credenciamento(labs, now),
                                                gatherings, now, DefaultThresholdDays)
         IN  result' = [op |-> "compute_inactive_labs_alert", current_date |-> now,
                        raised |-> out.raised,
                        ids |-> {out.rows[i].cnpj : i \in 1..Len(out.rows)}]
    /\ UNCHANGED <<representatives, labs, gatherings, columns, monthly, gatheringBag>>

NextMinimal == ColetaStatusOfLabs \/ InactiveLabsAlertOfLabs

SpecMinimal == InitMinimal /\ [][NextMinimal]_vars

(* C26: on laboratories that have no createdAt column of their own and a
   non-empty gathering table, compute_coleta_status and
   compute_inactive_labs_alert do not raise, and the status covers every
   accredited laboratory *)
C26_MinimalLabsAccepted ==
    (/\ result.op # "none"
     /\ gatherings # <<>>
     /\ \A i \in 1..Len(labs) : "createdAt" \notin DOMAIN labs[i])
        => /\ result.raised = "none"
           /\ result.op = "compute_coleta_status"
                => result.ids = {labs[i]._id : i \in {j \in 1..Len(labs) : labs[j].active}}

(***************************************************************************)
(* The dashboard of one representative: rep_individual_dashboard with      *)
(* compute_rep_accreditations and compute_rep_lab_status, and the readings *)
(* of the clock one pass makes.                                            *)
(***************************************************************************)

(* config.get_current_datetime: datetime.now(); the readings of one pass, in
   the order main, rep_individual_dashboard and compute_rep_lab_status make
   them, never go back *)
get_current_datetime ==
    {t \in Instants \X Instants \X Instants : t[1] = 2000 /\ t[1] <= t[2] /\ t[2] <= t[3]}

rep_labs(labs_status, rep_name) ==
    SelectSeq(labs_status, LAMBDA l : l.name_rep = rep_name)

compute_rep_accreditations(labs_status, rep_name, current_date) ==
    [num_credenciados |->
        Len(SelectSeq(rep_labs(labs_status, rep_name), LAMBDA l : l.is_credenciado)),
     num_new_accred |->
        Len(compute_new_accreditations(rep_labs(labs_status, rep_name), current_date, 3)),
     num_descred |->
        Len(SelectSeq(rep_labs(labs_status, rep_name), LAMBDA l : ~l.is_credenciado))]

(* clock is what its own get_current_datetime() returns *)
compute_rep_lab_status(labs_status, gatherings_active, rep_name, activity_window, clock) ==
    LET labs_ids == IdsOf(rep_labs(labs_status, rep_name))
        gatherings_of_rep == SelectSeq(gatherings_active,
                                    LAMBDA g : g._laboratory \in labs_ids)
        status_df == compute_coleta_status(rep_labs(labs_status, rep_name), gatherings_of_rep,
                                           clock, activity_window).labs
        ativos == Len(SelectSeq(status_df, LAMBDA l : l.ativo_coleta))
    IN  [ativos |-> ativos, inativos |-> Len(status_df) - ativos, status_df |-> status_df]

(* activation_rate < 70, with activation_rate = ativos / total_labs * 100 *)
low_activation(ativos, total_labs) == ativos * 100 < 70 * total_labs

(* the metrics and the alerts of the page, up to the export buttons;
   activation_rate is assigned under total_labs > 0 only and read by the last
   alert on every path *)
rep_individual_dashboard(rep_name, labs_status, gatherings_active, activity_window, clock) ==
    LET accred_metrics == compute_rep_accreditations(labs_status, rep_name, clock[2])
        status_metrics == compute_rep_lab_status(labs_status, gatherings_active,
                                                 rep_name, activity_window, clock[3])
        total_labs == accred_metrics.num_credenciados
        alerts == (IF status_metrics.inativos > 0 THEN {"labs inativos"} ELSE {})
                    \cup (IF accred_metrics.num_descred > 0 THEN {"labs descredenciados"} ELSE {})
                    \cup (IF accred_metrics.num_new_accred = 0
                          THEN {"nenhum novo credenciamento"} ELSE {})
    IN  IF total_labs > 0
        THEN [raised |-> "none", total_labs |-> total_labs,
              activation_rate |-> [num |-> status_metrics.ativos * 100, den |-> total_labs],
              alerts |-> alerts \cup (IF low_activation(status_metrics.ativos, total_labs)
                                      THEN {"taxa de ativacao baixa"} ELSE {}),
              status_df |-> status_metrics.status_df]
        ELSE [raised |-> "UnboundLocalError", total_labs |-> total_labs,
              activation_rate |-> [num |-> 0, den |-> 0], alerts |-> {},
              status_df |-> status_metrics.status_df]

(* Inputs *)
RepNamesOfLabs == {"INT-R1", "EXT-R2"}

(* accredited long ago, or 20 days before the first reading of the clock *)
RepLabCreatedAt == {2000 - 1600, 2000 - 40}

RepLabTables ==
    UNION {{[i \in 1..n |->
                [AlertLabRow(i, f[i][1], f[i][3]) EXCEPT !.name_rep = f[i][2]]] :
               f \in [1..n -> BOOLEAN \X RepNamesOfLabs \X RepLabCreatedAt]} :
               n \in 1..MaxLabs}

(* null, the last half day inside the activity window at the first reading,
   10 days before *)
RepGatheringCreatedAt ==
    {NaT, 2000 - DEFAULT_ACTIVITY_WINDOW_DAYS * HalfDaysPerDay - 1, 2000 - 20}

RepGatheringTables ==
    UNION {{[i \in 1..n |->
                [_laboratory |-> f[i][1], createdAt |-> f[i][2], active |-> TRUE,
                 test |-> FALSE, disabledInReport |-> FALSE]] :
               f \in [1..n -> (1..MaxLabs) \X RepGatheringCreatedAt]} :
               n \in 0..MaxGatherings}

InitRep ==
    /\ labs \in RepLabTables
    /\ gatherings \in RepGatheringTables
    /\ representatives = <<>>
    /\ columns = NoLocation
    /\ monthly = EmptyMonthly
    /\ gatheringBag = <<>>
    /\ result = NoResult

(* sorted(df_labs["name_rep"].dropna().unique()) *)
rep_options(df_labs) == {df_labs[i].name_rep : i \in 1..Len(df_labs)}

(* one pass of main with the tab of one representative: the status of the
   accredited laboratories at the reading of main, then the page of the
   selected representative *)
RepIndividualDashboard ==
    /\ result.op = "none"
    /\ \E clock \in get_current_datetime, selected_rep \in rep_options(labs) :
         LET labs_status == compute_credenciamento(labs, clock[1])
             df_labs_cred == compute_coleta_status(
                                 SelectSeq(labs_status, LAMBDA l : l.is_credenciado),
                                 gatherings, clock[1], DEFAULT_ACTIVITY_WINDOW_DAYS).labs
             page == rep_individual_dashboard(selected_rep, labs_status, gatherings,
                                              DEFAULT_ACTIVITY_WINDOW_DAYS, clock)
         IN  result' = [op |-> "rep_individual_dashboard", selected_rep |-> selected_rep,
                        clock |-> clock, raised |-> page.raised,
                        total_labs |-> page.total_labs,
                        activation_rate |-> page.activation_rate, alerts |-> page.alerts,
                        ativos_main |-> IdsOf(SelectSeq(df_labs_cred,
                                                        LAMBDA l : l.ativo_coleta)),
                        ativos_rep |-> IdsOf(SelectSeq(page.status_df,
                                                       LAMBDA l : l.ativo_coleta))]
    /\ UNCHANGED <<representatives, labs, gatherings, columns, monthly, gatheringBag>>

NextRep == RepIndividualDashboard

SpecRep == InitRep /\ [][NextRep]_vars

(* C27: for a selectable representative with no accredited laboratory the
   page completes without raising and the activation rate its alert uses is
   defined and 0 *)
C27_ZeroCredentialedRepHandled ==
    (result.op = "rep_individual_dashboard" /\ result.total_labs = 0)
        => /\ result.raised = "none"
           /\ result.activation_rate.num = 0

(* C30: the recency computations of one pass use the instant read at its
   start, the clock is not read again, and an accredited laboratory of the
   selected representative is active on the page exactly when it is active in
   the status of main *)
C30_OneReferenceInstantPerPass ==
    result.op = "rep_individual_dashboard"
        => /\ result.clock[2] = result.clock[1]
           /\ result.clock[3] = result.clock[1]
           /\ \A i \in 1..Len(labs) :
                (labs[i].active /\ labs[i].name_rep = result.selected_rep)
                    => (labs[i]._id \in result.ativos_main
                            <=> labs[i]._id \in result.ativos_rep)

(***************************************************************************)
(* Claims on the bounds of the metrics tables.                             *)
(***************************************************************************)

MetricsOps ==
    {"compute_representative_metrics", "compute_geographic_metrics", "compute_city_metrics"}

(* C28: in every row of compute_representative_metrics,
   compute_geographic_metrics and compute_city_metrics labs_ativos is at most
   labs_credenciados, labs_inativos is not negative and taxa_ativacao is at
   most 100, gatherings of laboratories with active == false included *)
C28_ActiveLabsWithinAccredited ==
    result.op \in MetricsOps
        => \A i \in 1..Len(result.rows) :
              /\ result.rows[i].labs_ativos <= result.rows[i].labs_credenciados
              /\ result.rows[i].labs_inativos >= 0
              /\ \/ FloatLess(result.rows[i].taxa_ativacao, 100)
                 \/ FloatEq(result.rows[i].taxa_ativacao, 100, 1)

(* the laboratory has a gathering with a valid timestamp *)
has_valid_gathering(id) ==
    \E k \in 1..Len(gatherings) :
        gatherings[k]._laboratory = id /\ gatherings[k].createdAt # NaT

(* C29: in the status table the days display is "-" exactly for the
   laboratories with no gathering of a valid timestamp; a laboratory with one
   shows its number of days, 999 included, and its last-collection date *)
C29_DashOnlyWithoutGathering ==
    result.op = "compute_coleta_status"
        => \A i \in 1..Len(result.labs) :
              /\ result.labs[i].days_since_last_display.txt = "-"
                     <=> ~has_valid_gathering(result.labs[i]._id)
              /\ has_valid_gathering(result.labs[i]._id)
                     => /\ result.labs[i].days_since_last_display =
                                [txt |-> "number", n |-> result.labs[i].days_since_last]
                        /\ result.labs[i].ultima_coleta_str.txt = "date"

====
